---- MODULE Spec2Model ----
(***************************************************************************)
(* Model of the trade-analysis reconciliation pipeline                     *)
(* (scripts/process_monthly_data.py) and of the library functions it and   *)
(* the analysis layer use (src/transformers.py, src/analysis.py,           *)
(* src/classification_mapper.py).                                          *)
(*                                                                         *)
(* Numbers.  A float64 is modelled by an exact rational <<n, d>> in lowest *)
(* terms with d > 0, or by one of the three non-finite values of IEEE 754: *)
(* <<0, 0>> is NaN, <<1, 0>> is +inf and <<-1, 0>> is -inf.  Rounding is   *)
(* not modelled; the non-finite values and their propagation are.          *)
(*                                                                         *)
(* Strings.  A Python str is modelled by the sequence of its characters,   *)
(* so that upper(), strip(), isdigit() and int() are computed.             *)
(*                                                                         *)
(* DataFrames.  A DataFrame is the sequence of its rows, a row a record    *)
(* whose fields are the columns.                                           *)
(***************************************************************************)
EXTENDS Integers, Sequences, FiniteSets, TLC

(***************************************************************************)
(* Program constants                                                       *)
(***************************************************************************)
\* a complete year has 12 months (is_ytd, annualization)
MonthsPerYear == 12

\* deflator_map.get(base_year, 100)
DefaultBaseDeflator == 100

\* annual["value"] * 1e9
BillionsToUSD == 1000000000

\* the backfill of the historical rows
HistoricalMonthCount == 12

HistoricalLastMonth == 12

\* process_data's base_year
PipelineBaseYear == 2020

\* analyze_country_shifts(..., top_n=20)
DefaultTopN == 20

\* identify_emerging_partners(..., lookback_years=10, growth_threshold=100, min_final_share=1.0)
DefaultLookbackYears == 10

DefaultGrowthThreshold == 100

DefaultMinFinalShare == 1

\* detect_structural_breaks(..., window=5, threshold=2.0)
DefaultWindow == 5

DefaultThreshold == 2

(***************************************************************************)
(* float64 arithmetic                                                      *)
(***************************************************************************)
NaN == <<0, 0>>

PosInf == <<1, 0>>

NegInf == <<-1, 0>>

Abs(x) == IF x < 0 THEN -x ELSE x

Sign(x) == IF x < 0 THEN -1 ELSE IF x > 0 THEN 1 ELSE 0

RECURSIVE GCD(_, _)
GCD(a, b) == IF b = 0 THEN a ELSE GCD(b, a % b)

\* the float with value n/d (d >= 0); d = 0 gives the non-finite value of n's sign
Norm(n, d) ==
    IF d = 0 THEN <<Sign(n), 0>>
    ELSE IF n = 0 THEN <<0, 1>>
    ELSE LET g == GCD(Abs(n), d) IN <<Sign(n) * (Abs(n) \div g), d \div g>>

Int2F(k) == <<k, 1>>

IsNaN(x) == x = NaN

IsFinite(x) == x[2] # 0

FMul(x, y) ==
    IF IsNaN(x) \/ IsNaN(y) THEN NaN
    ELSE IF ~IsFinite(x) \/ ~IsFinite(y) THEN <<Sign(x[1]) * Sign(y[1]), 0>>
    ELSE LET g1 == GCD(Abs(x[1]), y[2])
             g2 == GCD(Abs(y[1]), x[2])
         IN  IF x[1] = 0 \/ y[1] = 0 THEN <<0, 1>>
             ELSE Norm((x[1] \div g1) * (y[1] \div g2), (x[2] \div g2) * (y[2] \div g1))

\* 1/y with IEEE's 1/0 = +inf and 1/inf = 0
FRecip(y) ==
    IF IsNaN(y) THEN NaN
    ELSE IF ~IsFinite(y) THEN <<0, 1>>
    ELSE IF y[1] = 0 THEN PosInf
    ELSE <<Sign(y[1]) * y[2], Abs(y[1])>>

\* a division that gives 0 when the divisor is zero
FDivClamped(x, y) ==
    IF y = <<0, 1>> THEN <<0, 1>>
    ELSE IF ~IsFinite(x) /\ ~IsFinite(y) THEN NaN
    ELSE FMul(x, FRecip(y))

\* x / y: 0/0 and inf/inf are NaN, x/0 is the infinity of x's sign
FDiv(x, y) ==
    IF ~IsFinite(x) /\ ~IsFinite(y) THEN NaN
    ELSE FMul(x, FRecip(y))

FAdd(x, y) ==
    IF IsNaN(x) \/ IsNaN(y) THEN NaN
    ELSE IF ~IsFinite(x) /\ ~IsFinite(y) THEN (IF x = y THEN x ELSE NaN)
    ELSE IF ~IsFinite(x) THEN x
    ELSE IF ~IsFinite(y) THEN y
    ELSE LET g == GCD(x[2], y[2])
             l == (x[2] \div g) * y[2]
         IN  Norm(x[1] * (l \div x[2]) + y[1] * (l \div y[2]), l)

FNeg(x) == <<-x[1], x[2]>>

FSub(x, y) == FAdd(x, FNeg(y))

\* x < y; every comparison with NaN is false
FLt(x, y) ==
    IF IsNaN(x) \/ IsNaN(y) THEN FALSE
    ELSE IF ~IsFinite(x) THEN x = NegInf /\ y # NegInf
    ELSE IF ~IsFinite(y) THEN y = PosInf
    ELSE x[1] * y[2] < y[1] * x[2]

FGt(x, y) == FLt(y, x)

\* x >= y; every comparison with NaN is false
FGe(x, y) == ~IsNaN(x) /\ ~IsNaN(y) /\ ~FLt(x, y)

\* pandas' sum of a column: NaN entries are skipped, the empty sum is 0
RECURSIVE SumSkipNa(_)
SumSkipNa(s) ==
    IF s = <<>> THEN <<0, 1>>
    ELSE IF IsNaN(Head(s)) THEN SumSkipNa(Tail(s))
    ELSE FAdd(Head(s), SumSkipNa(Tail(s)))

(***************************************************************************)
(* str operations                                                          *)
(***************************************************************************)
LowerToUpper ==
    [c \in {"a", "b", "c", "d", "e", "f", "g", "h", "i", "j", "k", "l", "m",
            "n", "o", "p", "q", "r", "s", "t", "u", "v", "w", "x", "y", "z"} |->
        CASE c = "a" -> "A" [] c = "b" -> "B" [] c = "c" -> "C" [] c = "d" -> "D"
          [] c = "e" -> "E" [] c = "f" -> "F" [] c = "g" -> "G" [] c = "h" -> "H"
          [] c = "i" -> "I" [] c = "j" -> "J" [] c = "k" -> "K" [] c = "l" -> "L"
          [] c = "m" -> "M" [] c = "n" -> "N" [] c = "o" -> "O" [] c = "p" -> "P"
          [] c = "q" -> "Q" [] c = "r" -> "R" [] c = "s" -> "S" [] c = "t" -> "T"
          [] c = "u" -> "U" [] c = "v" -> "V" [] c = "w" -> "W" [] c = "x" -> "X"
          [] c = "y" -> "Y" [] c = "z" -> "Z"]

\* str.upper()
Upper(s) == [i \in 1..Len(s) |-> IF s[i] \in DOMAIN LowerToUpper THEN LowerToUpper[s[i]] ELSE s[i]]

RECURSIVE LStrip(_)
LStrip(s) == IF s # <<>> /\ Head(s) = " " THEN LStrip(Tail(s)) ELSE s

RECURSIVE RStrip(_)
RStrip(s) == IF s # <<>> /\ s[Len(s)] = " " THEN RStrip(SubSeq(s, 1, Len(s) - 1)) ELSE s

\* str.strip()
Strip(s) == RStrip(LStrip(s))

DigitValue ==
    [c \in {"0", "1", "2", "3", "4", "5", "6", "7", "8", "9"} |->
        CASE c = "0" -> 0 [] c = "1" -> 1 [] c = "2" -> 2 [] c = "3" -> 3 [] c = "4" -> 4
          [] c = "5" -> 5 [] c = "6" -> 6 [] c = "7" -> 7 [] c = "8" -> 8 [] c = "9" -> 9]

\* str.isdigit()
IsDigit(s) == s # <<>> /\ \A i \in 1..Len(s) : s[i] \in DOMAIN DigitValue

\* int() of a string of digits
RECURSIVE IntOf(_)
IntOf(s) == IF s = <<>> THEN 0 ELSE 10 * IntOf(SubSeq(s, 1, Len(s) - 1)) + DigitValue[s[Len(s)]]

(***************************************************************************)
(* Country Normalizer (classification_mapper.py)                           *)
(***************************************************************************)
\* the synonym table, in the dict's insertion order: <<pattern, standard>>
COUNTRY_NAME_MAPPINGS ==
    <<
       <<<<"C", "H", "I", "N", "A", ",", " ", "P", "E", "O", "P", "L", "E", "S", " ", "R", "E", "P", "U", "B", "L", "I", "C", " ", "O", "F">>,
         <<"C", "h", "i", "n", "a">>>>,
       <<<<"C", "H", "I", "N", "A">>,
         <<"C", "h", "i", "n", "a">>>>,
       <<<<"C", "H", "I", "N", "A", ",", " ", "P", ".", "R", ".">>,
         <<"C", "h", "i", "n", "a">>>>,
       <<<<"P", "E", "O", "P", "L", "E", "S", " ", "R", "E", "P", "U", "B", "L", "I", "C", " ", "O", "F", " ", "C", "H", "I", "N", "A">>,
         <<"C", "h", "i", "n", "a">>>>,
       <<<<"T", "A", "I", "W", "A", "N">>,
         <<"T", "a", "i", "w", "a", "n">>>>,
       <<<<"T", "A", "I", "W", "A", "N", ",", " ", "P", "R", "O", "V", "I", "N", "C", "E", " ", "O", "F", " ", "C", "H", "I", "N", "A">>,
         <<"T", "a", "i", "w", "a", "n">>>>,
       <<<<"C", "H", "I", "N", "E", "S", "E", " ", "T", "A", "I", "P", "E", "I">>,
         <<"T", "a", "i", "w", "a", "n">>>>,
       <<<<"H", "O", "N", "G", " ", "K", "O", "N", "G">>,
         <<"H", "o", "n", "g", " ", "K", "o", "n", "g">>>>,
       <<<<"H", "O", "N", "G", " ", "K", "O", "N", "G", " ", "S", "A", "R">>,
         <<"H", "o", "n", "g", " ", "K", "o", "n", "g">>>>,
       <<<<"H", "O", "N", "G", " ", "K", "O", "N", "G", ",", " ", "C", "H", "I", "N", "A">>,
         <<"H", "o", "n", "g", " ", "K", "o", "n", "g">>>>,
       <<<<"K", "O", "R", "E", "A", ",", " ", "S", "O", "U", "T", "H">>,
         <<"S", "o", "u", "t", "h", " ", "K", "o", "r", "e", "a">>>>,
       <<<<"K", "O", "R", "E", "A", ",", " ", "R", "E", "P", "U", "B", "L", "I", "C", " ", "O", "F">>,
         <<"S", "o", "u", "t", "h", " ", "K", "o", "r", "e", "a">>>>,
       <<<<"S", "O", "U", "T", "H", " ", "K", "O", "R", "E", "A">>,
         <<"S", "o", "u", "t", "h", " ", "K", "o", "r", "e", "a">>>>,
       <<<<"R", "E", "P", "U", "B", "L", "I", "C", " ", "O", "F", " ", "K", "O", "R", "E", "A">>,
         <<"S", "o", "u", "t", "h", " ", "K", "o", "r", "e", "a">>>>,
       <<<<"K", "O", "R", "E", "A", ",", " ", "N", "O", "R", "T", "H">>,
         <<"N", "o", "r", "t", "h", " ", "K", "o", "r", "e", "a">>>>,
       <<<<"K", "O", "R", "E", "A", ",", " ", "D", "E", "M", " ", "P", "E", "O", "P", "L", "E", "S", " ", "R", "E", "P">>,
         <<"N", "o", "r", "t", "h", " ", "K", "o", "r", "e", "a">>>>,
       <<<<"V", "I", "E", "T", "N", "A", "M">>,
         <<"V", "i", "e", "t", "n", "a", "m">>>>,
       <<<<"V", "I", "E", "T", " ", "N", "A", "M">>,
         <<"V", "i", "e", "t", "n", "a", "m">>>>,
       <<<<"V", "I", "E", "T", "N", "A", "M", ",", " ", "S", "O", "C", " ", "R", "E", "P", " ", "O", "F">>,
         <<"V", "i", "e", "t", "n", "a", "m">>>>,
       <<<<"G", "E", "R", "M", "A", "N", "Y">>,
         <<"G", "e", "r", "m", "a", "n", "y">>>>,
       <<<<"G", "E", "R", "M", "A", "N", "Y", ",", " ", "F", "E", "D", "E", "R", "A", "L", " ", "R", "E", "P", "U", "B", "L", "I", "C", " ", "O", "F">>,
         <<"G", "e", "r", "m", "a", "n", "y">>>>,
       <<<<"G", "E", "R", "M", "A", "N", "Y", ",", " ", "W", "E", "S", "T">>,
         <<"G", "e", "r", "m", "a", "n", "y">>>>,
       <<<<"G", "E", "R", "M", "A", "N", "Y", ",", " ", "E", "A", "S", "T">>,
         <<"G", "e", "r", "m", "a", "n", "y", " ", "(", "E", "a", "s", "t", ")">>>>,
       <<<<"U", "N", "I", "T", "E", "D", " ", "K", "I", "N", "G", "D", "O", "M">>,
         <<"U", "n", "i", "t", "e", "d", " ", "K", "i", "n", "g", "d", "o", "m">>>>,
       <<<<"U", "K">>,
         <<"U", "n", "i", "t", "e", "d", " ", "K", "i", "n", "g", "d", "o", "m">>>>,
       <<<<"G", "R", "E", "A", "T", " ", "B", "R", "I", "T", "A", "I", "N">>,
         <<"U", "n", "i", "t", "e", "d", " ", "K", "i", "n", "g", "d", "o", "m">>>>,
       <<<<"R", "U", "S", "S", "I", "A">>,
         <<"R", "u", "s", "s", "i", "a">>>>,
       <<<<"R", "U", "S", "S", "I", "A", "N", " ", "F", "E", "D", "E", "R", "A", "T", "I", "O", "N">>,
         <<"R", "u", "s", "s", "i", "a">>>>,
       <<<<"U", "S", "S", "R">>,
         <<"S", "o", "v", "i", "e", "t", " ", "U", "n", "i", "o", "n">>>>,
       <<<<"S", "O", "V", "I", "E", "T", " ", "U", "N", "I", "O", "N">>,
         <<"S", "o", "v", "i", "e", "t", " ", "U", "n", "i", "o", "n">>>>,
       <<<<"M", "E", "X", "I", "C", "O">>,
         <<"M", "e", "x", "i", "c", "o">>>>,
       <<<<"C", "A", "N", "A", "D", "A">>,
         <<"C", "a", "n", "a", "d", "a">>>>,
       <<<<"J", "A", "P", "A", "N">>,
         <<"J", "a", "p", "a", "n">>>>,
       <<<<"I", "N", "D", "I", "A">>,
         <<"I", "n", "d", "i", "a">>>>,
       <<<<"U", "N", "I", "T", "E", "D", " ", "S", "T", "A", "T", "E", "S">>,
         <<"U", "n", "i", "t", "e", "d", " ", "S", "t", "a", "t", "e", "s">>>>,
       <<<<"U", "S", "A">>,
         <<"U", "n", "i", "t", "e", "d", " ", "S", "t", "a", "t", "e", "s">>>>,
       <<<<"U", ".", "S", ".", "A", ".">>,
         <<"U", "n", "i", "t", "e", "d", " ", "S", "t", "a", "t", "e", "s">>>>
    >>

CodePointTable ==
    {<<" ", 32>>, <<"(", 40>>, <<")", 41>>, <<",", 44>>, <<".", 46>>, <<"0", 48>>,
     <<"1", 49>>, <<"2", 50>>, <<"3", 51>>, <<"4", 52>>, <<"5", 53>>, <<"6", 54>>,
     <<"7", 55>>, <<"8", 56>>, <<"9", 57>>, <<"A", 65>>, <<"B", 66>>, <<"C", 67>>,
     <<"D", 68>>, <<"E", 69>>, <<"F", 70>>, <<"G", 71>>, <<"H", 72>>, <<"I", 73>>,
     <<"J", 74>>, <<"K", 75>>, <<"L", 76>>, <<"M", 77>>, <<"N", 78>>, <<"O", 79>>,
     <<"P", 80>>, <<"Q", 81>>, <<"R", 82>>, <<"S", 83>>, <<"T", 84>>, <<"U", 85>>,
     <<"V", 86>>, <<"W", 87>>, <<"X", 88>>, <<"Y", 89>>, <<"Z", 90>>, <<"a", 97>>,
     <<"b", 98>>, <<"c", 99>>, <<"d", 100>>, <<"e", 101>>, <<"f", 102>>, <<"g", 103>>,
     <<"h", 104>>, <<"i", 105>>, <<"j", 106>>, <<"k", 107>>, <<"l", 108>>, <<"m", 109>>,
     <<"n", 110>>, <<"o", 111>>, <<"p", 112>>, <<"q", 113>>, <<"r", 114>>, <<"s", 115>>,
     <<"t", 116>>, <<"u", 117>>, <<"v", 118>>, <<"w", 119>>, <<"x", 120>>, <<"y", 121>>,
     <<"z", 122>>}


\* map_country of standardize_country_names: the first entry whose upper-cased
\* pattern equals the upper-cased, stripped name gives the standard name; a name
\* that matches no entry is returned stripped
RECURSIVE MapLookup(_, _)
MapLookup(upper_name, mappings) ==
    IF mappings = <<>> THEN <<>>
    ELSE IF upper_name = Upper(Head(mappings)[1]) THEN <<Head(mappings)[2]>>
    ELSE MapLookup(upper_name, Tail(mappings))

\* a mapping that returns an unmatched name as it came, untrimmed
map_country_untrimmed(name) ==
    LET hit == MapLookup(Strip(Upper(name)), COUNTRY_NAME_MAPPINGS)
    IN  IF hit # <<>> THEN hit[1] ELSE name

\* a mapping that compares the upper-cased name without stripping it
map_country_match_unstripped(name) ==
    LET hit == MapLookup(Upper(name), COUNTRY_NAME_MAPPINGS)
    IN  IF hit # <<>> THEN hit[1] ELSE Strip(name)

map_country(name) ==
    LET hit == MapLookup(Strip(Upper(name)), COUNTRY_NAME_MAPPINGS)
    IN  IF hit # <<>> THEN hit[1] ELSE Strip(name)

\* standardize_country_names: a copy of df with the country column mapped
standardize_country_names(df) ==
    [i \in 1..Len(df) |-> [df[i] EXCEPT !.country = map_country(@)]]

\* thresholds that give the threshold year to the earlier period
get_historical_period_inclusive(year) ==
    IF year <= 1989 THEN "Pre-DataWeb"
    ELSE IF year <= 1994 THEN "Pre-NAFTA"
    ELSE IF year <= 2001 THEN "Pre-WTO China"
    ELSE IF year <= 2008 THEN "China WTO Boom"
    ELSE IF year <= 2010 THEN "Financial Crisis"
    ELSE IF year <= 2018 THEN "Post-Crisis Growth"
    ELSE IF year <= 2020 THEN "Trade War"
    ELSE IF year <= 2022 THEN "COVID Era"
    ELSE "Post-COVID"

\* get_historical_period
get_historical_period(year) ==
    IF year < 1989 THEN "Pre-DataWeb"
    ELSE IF year < 1994 THEN "Pre-NAFTA"
    ELSE IF year < 2001 THEN "Pre-WTO China"
    ELSE IF year < 2008 THEN "China WTO Boom"
    ELSE IF year < 2010 THEN "Financial Crisis"
    ELSE IF year < 2018 THEN "Post-Crisis Growth"
    ELSE IF year < 2020 THEN "Trade War"
    ELSE IF year < 2022 THEN "COVID Era"
    ELSE "Post-COVID"

(***************************************************************************)
(* DataFrame helpers                                                       *)
(***************************************************************************)
\* Python's order on str: by code point, a proper prefix first
CodePoint(c) == (CHOOSE p \in CodePointTable : p[1] = c)[2]

RECURSIVE StrLt(_, _)
StrLt(s, t) ==
    IF t = <<>> THEN FALSE
    ELSE IF s = <<>> THEN TRUE
    ELSE IF Head(s) # Head(t) THEN CodePoint(Head(s)) < CodePoint(Head(t))
    ELSE StrLt(Tail(s), Tail(t))

\* pd.concat of a sequence of frames
RECURSIVE Concat(_)
Concat(frames) == IF frames = <<>> THEN <<>> ELSE Head(frames) \o Concat(Tail(frames))

Column(df, col) == [i \in 1..Len(df) |-> df[i][col]]

\* the order of a (country, year) key: by country, then by year
KeyLt(a, b) == StrLt(a[1], b[1]) \/ (a[1] = b[1] /\ a[2] < b[2])

\* the keys of a set in ascending order (groupby sorts its group keys)
RECURSIVE SortKeys(_)
SortKeys(S) ==
    IF S = {} THEN <<>>
    ELSE LET m == CHOOSE x \in S : \A y \in S \ {x} : KeyLt(x, y)
         IN  <<m>> \o SortKeys(S \ {m})

MaxOf(S) == CHOOSE x \in S : \A y \in S : y <= x

MinOf(S) == CHOOSE x \in S : \A y \in S : x <= y

(***************************************************************************)
(* Monthly Aggregator (transformers.py)                                    *)
(***************************************************************************)
\* A wide table is [columns |-> the names of the columns after the first two,
\* rows |-> the rows], a row [country, year, cells], cells[j] the cell under
\* columns[j].  A cell is [isnum, v, text]: a number v as read_csv parsed it, or
\* the text of a cell that read_csv left as a string (v is then NaN).
exclude_rows ==
    {<<"T", "o", "t", "a", "l", ":">>, <<"T", "o", "t", "a", "l">>,
     <<"U", "n", "s", "p", "e", "c", "i", "f", "i", "e", "d">>,
     <<"T", "r", "a", "n", "s", "s", "h", "i", "p", "m", "e", "n", "t">>,
     <<"I", "n", "t", "e", "r", "n", "a", "t", " ", "O", "r", "g", "a", "n", "i", "z", "a", "t", "i", "o", "n">>}

\* a conversion that first removes thousands separators and quotes from a text,
\* as parse_monthly_columns does
ToNumericStripped(cell) ==
    LET digits == SelectSeq(cell.text, LAMBDA c : c \notin {",", "\""})
    IN  IF cell.isnum THEN cell.v
        ELSE IF IsDigit(digits) THEN Int2F(IntOf(digits)) ELSE NaN

\* pd.to_numeric(errors='coerce') of one cell: a number stays, a text of digits
\* is parsed, any other text (one with a thousands separator too) becomes NaN
ToNumeric(cell) ==
    IF cell.isnum THEN cell.v
    ELSE IF IsDigit(cell.text) THEN Int2F(IntOf(cell.text)) ELSE NaN

\* the positions of the month columns: the columns whose name is all digits
MonthCols(df) == SelectSeq([j \in 1..Len(df.columns) |-> j], LAMBDA j : IsDigit(df.columns[j]))

\* df.melt: one record per month column and row, column by column
Melt(df, trade_type) ==
    LET mc == MonthCols(df)
        n  == Len(df.rows)
    IN  [k \in 1..(Len(mc) * n) |->
            LET j == mc[((k - 1) \div n) + 1]
                r == df.rows[((k - 1) % n) + 1]
            IN  [country |-> r.country, year |-> r.year, month |-> IntOf(df.columns[j]),
                 value |-> ToNumeric(r.cells[j]), trade_type |-> trade_type]]

\* parse_monthly_wide_format
parse_monthly_wide_format(df, trade_type) ==
    LET df_long  == Melt(df, trade_type)
        no_total == SelectSeq(df_long, LAMBDA r : Strip(r.country) \notin exclude_rows)
        positive == SelectSeq(no_total, LAMBDA r : FGt(r.value, <<0, 1>>))
    IN  SelectSeq(positive, LAMBDA r : ~IsNaN(r.value))

\* the rows of one (country, year) group, in order
GroupRows(df, key) == SelectSeq(df, LAMBDA r : <<r.country, r.year>> = key)

\* a flag that also marks a complete year as year-to-date
IsYtdUpToTwelve(month_count) == month_count <= MonthsPerYear

\* agg['month_count'] < 12
IsYtd(month_count) == month_count < MonthsPerYear

\* the 'count' aggregation: the number of records of the group (month is never null)
MonthCount(g) == Len(g)

\* aggregate_monthly_to_annual: one row per (country, year), keys ascending
aggregate_monthly_to_annual(df) ==
    LET keys == SortKeys({<<df[i].country, df[i].year>> : i \in 1..Len(df)})
    IN  [k \in 1..Len(keys) |->
            LET g  == GroupRows(df, keys[k])
                mc == MonthCount(g)
            IN  [country |-> keys[k][1], year |-> keys[k][2],
                 value |-> SumSkipNa(Column(g, "value")),
                 month_count |-> mc,
                 last_month |-> MaxOf({g[i].month : i \in 1..Len(g)}),
                 is_ytd |-> IsYtd(mc)]]

\* annualize_ytd_value: adds value_annualized, the other columns are kept
annualize_ytd_value(df) ==
    [i \in 1..Len(df) |->
        [c \in DOMAIN df[i] \cup {"value_annualized"} |->
            IF c = "value_annualized"
            THEN FMul(df[i].value, FDiv(Int2F(MonthsPerYear), Int2F(df[i].month_count)))
            ELSE df[i][c]]]

(***************************************************************************)
(* Inflation Adjuster, Share & Growth Calculator (transformers.py)         *)
(***************************************************************************)
\* deflator_df.set_index("year")["deflator"].to_dict(): the last row of a year wins
RECURSIVE DeflatorMap(_, _)
DeflatorMap(deflator_df, year) ==
    IF deflator_df = <<>> THEN <<>>
    ELSE IF deflator_df[Len(deflator_df)].year = year THEN <<deflator_df[Len(deflator_df)].deflator>>
    ELSE DeflatorMap(SubSeq(deflator_df, 1, Len(deflator_df) - 1), year)

\* a base deflator that is always the default, the table not consulted
BaseDeflatorDefaultOnly(deflator_df, base_year) == Int2F(DefaultBaseDeflator)

\* deflator_map.get(base_year, 100)
BaseDeflator(deflator_df, base_year) ==
    LET hit == DeflatorMap(deflator_df, base_year)
    IN  IF hit # <<>> THEN hit[1] ELSE Int2F(DefaultBaseDeflator)

\* a lookup that gives a year the table does not have the default deflator
RowDeflatorOrDefault(deflator_df, year) ==
    LET hit == DeflatorMap(deflator_df, year)
    IN  IF hit # <<>> THEN hit[1] ELSE Int2F(DefaultBaseDeflator)

\* df[year_col].map(deflator_map): NaN for a year the table does not have
RowDeflator(deflator_df, year) ==
    LET hit == DeflatorMap(deflator_df, year)
    IN  IF hit # <<>> THEN hit[1] ELSE NaN

\* a copy of row r with column col set to v
WithCol(r, col, v) == [c \in DOMAIN r \cup {col} |-> IF c = col THEN v ELSE r[c]]

\* adjust_for_inflation: adds value_real = value * (base_deflator / deflator)
adjust_for_inflation(df, deflator_df, base_year) ==
    LET base_deflator == BaseDeflator(deflator_df, base_year)
    IN  [i \in 1..Len(df) |->
            WithCol(df[i], "value_real",
                    FMul(df[i].value, FDiv(base_deflator, RowDeflator(deflator_df, df[i].year))))]

\* a total taken over the year alone, the trade type forgotten
YearlyTotalByYearOnly(df, value_col, r) ==
    SumSkipNa(Column(SelectSeq(df, LAMBDA q : q.year = r.year), value_col))

\* groupby([year, trade_type])[value_col].transform("sum") for row r
YearlyTotal(df, value_col, r) ==
    SumSkipNa(Column(SelectSeq(df, LAMBDA q : q.year = r.year /\ q.trade_type = r.trade_type),
                     value_col))

\* calculate_country_shares: adds share and share_pct
calculate_country_shares(df, value_col) ==
    [i \in 1..Len(df) |->
        LET share == FDiv(df[i][value_col], YearlyTotal(df, value_col, df[i]))
        IN  WithCol(WithCol(df[i], "share", share), "share_pct", FMul(share, Int2F(100)))]

\* sort_values([country, year]): a stable sort
RECURSIVE SortByCountryYear(_)
SortByCountryYear(df) ==
    IF df = <<>> THEN <<>>
    ELSE LET i == CHOOSE i \in 1..Len(df) :
                     /\ \A j \in 1..Len(df) :
                            ~KeyLt(<<df[j].country, df[j].year>>, <<df[i].country, df[i].year>>)
                     /\ \A j \in 1..(i - 1) :
                            <<df[j].country, df[j].year>> # <<df[i].country, df[i].year>>
         IN  <<df[i]>> \o SortByCountryYear(SubSeq(df, 1, i - 1) \o SubSeq(df, i + 1, Len(df)))

\* groupby([country, trade_type])[value_col].shift(1) at position i of the sorted frame
PrevValue(df, value_col, i) ==
    LET before == {j \in 1..(i - 1) : df[j].country = df[i].country
                                      /\ df[j].trade_type = df[i].trade_type}
    IN  IF before = {} THEN NaN ELSE df[MaxOf(before)][value_col]

\* calculate_yoy_growth: adds yoy_growth and yoy_growth_pct
calculate_yoy_growth(df, value_col) ==
    LET sorted == SortByCountryYear(df)
    IN  [i \in 1..Len(sorted) |->
            LET prev == PrevValue(sorted, value_col, i)
                yoy  == FDiv(FSub(sorted[i][value_col], prev), prev)
            IN  WithCol(WithCol(sorted[i], "yoy_growth", yoy), "yoy_growth_pct", FMul(yoy, Int2F(100)))]

\* add_historical_period
add_historical_period(df) ==
    [i \in 1..Len(df) |-> WithCol(df[i], "period", get_historical_period(df[i].year))]

(***************************************************************************)
(* Concentration analysis (analysis.py)                                    *)
(***************************************************************************)
\* the order of a (year, trade_type) key; "export" sorts before "import"
GroupLt(a, b) == a[1] < b[1] \/ (a[1] = b[1] /\ a[2] = "export" /\ b[2] = "import")

RECURSIVE SortGroups(_)
SortGroups(S) ==
    IF S = {} THEN <<>>
    ELSE LET m == CHOOSE x \in S : \A y \in S \ {x} : GroupLt(x, y)
         IN  <<m>> \o SortGroups(S \ {m})

\* a classification that counts a value on a threshold to the lower class
categorize_hhi_inclusive(h) ==
    IF FLt(h, Int2F(1500)) \/ h = Int2F(1500) THEN "Unconcentrated"
    ELSE IF FLt(h, Int2F(2500)) \/ h = Int2F(2500) THEN "Moderate"
    ELSE "Concentrated"

categorize_hhi(h) ==
    IF FLt(h, Int2F(1500)) THEN "Unconcentrated"
    ELSE IF FLt(h, Int2F(2500)) THEN "Moderate"
    ELSE "Concentrated"

\* (share * 100) ** 2 of every row of a group whose total is total
ShareSquared(g, value_col, total) ==
    [i \in 1..Len(g) |->
        LET pct == FMul(FDiv(g[i][value_col], total), Int2F(100))
        IN  FMul(pct, pct)]

\* calculate_hhi: one record per (year, trade_type), keys ascending
calculate_hhi(df, value_col) ==
    LET keys == SortGroups({<<df[i].year, df[i].trade_type>> : i \in 1..Len(df)})
    IN  [k \in 1..Len(keys) |->
            LET g     == SelectSeq(df, LAMBDA r : <<r.year, r.trade_type>> = keys[k])
                total == SumSkipNa(Column(g, value_col))
                hhi   == SumSkipNa(ShareSquared(g, value_col, total))
            IN  [year |-> keys[k][1], trade_type |-> keys[k][2], hhi |-> hhi,
                 concentration |-> categorize_hhi(hhi)]]

\* the values in a clipped window: whatever part of it lies within the series
RollingWindowPartial(series, window, i) ==
    LET offset == (window - 1) \div 2
        hi == i + offset
        lo == hi - window + 1
    IN  [k \in 1..((IF hi > Len(series) THEN Len(series) ELSE hi) - (IF lo < 1 THEN 1 ELSE lo) + 1) |->
            series[(IF lo < 1 THEN 1 ELSE lo) + k - 1].value]

\* series.rolling(window=window, center=True) at position i: the values of the
\* window that ends (window - 1) // 2 places after i, none (<<>>) when the window
\* does not lie within the series (min_periods is the window size)
RollingWindow(series, window, i) ==
    LET offset == (window - 1) \div 2
        hi == i + offset
        lo == hi - window + 1
    IN  IF lo >= 1 /\ hi <= Len(series)
        THEN [k \in 1..window |-> series[lo + k - 1].value]
        ELSE <<>>

\* .mean() of a window, NaN for an incomplete one
RollingMean(w) == IF w = <<>> THEN NaN ELSE FDiv(SumSkipNa(w), Int2F(Len(w)))

\* the squared standard error of the window's mean in place of its variance
RollingVarOfMean(w) ==
    IF w = <<>> THEN NaN
    ELSE FDiv(FDiv(SumSkipNa([k \in 1..Len(w) |->
                                FMul(FSub(w[k], RollingMean(w)), FSub(w[k], RollingMean(w)))]),
                   Int2F(Len(w) - 1)),
              Int2F(Len(w)))

\* the square of .std() of a window (ddof = 1), NaN for an incomplete one and for
\* a window of one value
RollingVar(w) ==
    IF w = <<>> THEN NaN
    ELSE FDiv(SumSkipNa([k \in 1..Len(w) |->
                            FMul(FSub(w[k], RollingMean(w)), FSub(w[k], RollingMean(w)))]),
              Int2F(Len(w) - 1))

\* abs((x - mean) / std) > threshold, decided on the squares: a NaN mean or std
\* and a zero std (0 / 0) give a NaN z-score, which exceeds nothing
ExceedsThreshold(x, mean, var, threshold) ==
    IF IsNaN(mean) \/ IsNaN(var) \/ var = Int2F(0) THEN FALSE
    ELSE IF FLt(threshold, Int2F(0)) THEN TRUE
    ELSE FGt(FMul(FSub(x, mean), FSub(x, mean)), FMul(FMul(threshold, threshold), var))

\* detect_structural_breaks: the index labels (years) of the breaks
detect_structural_breaks(series, window, threshold) ==
    Column(SelectSeq([i \in 1..Len(series) |->
                         [year |-> series[i].year,
                          brk  |-> ExceedsThreshold(series[i].value,
                                                    RollingMean(RollingWindow(series, window, i)),
                                                    RollingVar(RollingWindow(series, window, i)),
                                                    threshold)]],
                     LAMBDA r : r.brk),
           "year")

\* the labels of a set of str in lexicographic order, as an outer merge orders its keys
RECURSIVE SortStrings(_)
SortStrings(S) ==
    IF S = {} THEN <<>>
    ELSE LET m == CHOOSE x \in S : \A y \in S \ {x} : StrLt(x, y)
         IN  <<m>> \o SortStrings(S \ {m})

\* df[df[year_col] == year] with its share column: value / total * 100
YearData(df, year) ==
    LET data  == SelectSeq(df, LAMBDA r : r.year = year)
        total == SumSkipNa(Column(data, "value"))
    IN  [i \in 1..Len(data) |->
            [country |-> data[i].country,
             value   |-> data[i].value,
             share   |-> FMul(FDiv(data[i].value, total), Int2F(100))]]

\* the rows an outer merge on country makes for one country: every pairing of
\* its start rows with its end rows, or its rows of one side with NaN for the other
MergeCountry(start_rows, end_rows) ==
    IF start_rows = <<>>
    THEN [j \in 1..Len(end_rows) |->
             [country |-> end_rows[j].country, value_start |-> NaN, share_start |-> NaN,
              value_end |-> end_rows[j].value, share_end |-> end_rows[j].share]]
    ELSE IF end_rows = <<>>
    THEN [i \in 1..Len(start_rows) |->
             [country |-> start_rows[i].country,
              value_start |-> start_rows[i].value, share_start |-> start_rows[i].share,
              value_end |-> NaN, share_end |-> NaN]]
    ELSE [k \in 1..(Len(start_rows) * Len(end_rows)) |->
             LET i == ((k - 1) \div Len(end_rows)) + 1
                 j == ((k - 1) % Len(end_rows)) + 1
             IN  [country |-> start_rows[i].country,
                  value_start |-> start_rows[i].value, share_start |-> start_rows[i].share,
                  value_end |-> end_rows[j].value, share_end |-> end_rows[j].share]]

\* start_data.merge(end_data, on=country_col, how="outer", suffixes=...)
OuterMerge(start_data, end_data) ==
    LET keys == SortStrings({start_data[i].country : i \in 1..Len(start_data)}
                            \cup {end_data[j].country : j \in 1..Len(end_data)})
    IN  Concat([k \in 1..Len(keys) |->
                   MergeCountry(SelectSeq(start_data, LAMBDA r : r.country = keys[k]),
                                SelectSeq(end_data, LAMBDA r : r.country = keys[k]))])

\* .fillna(0): every NaN of the frame becomes 0
FillNa(frame) ==
    [i \in 1..Len(frame) |->
        [c \in DOMAIN frame[i] |->
            IF c # "country" /\ IsNaN(frame[i][c]) THEN Int2F(0) ELSE frame[i][c]]]

\* the infinities left as they are
KeepInf(x) == x

\* .replace([np.inf, -np.inf], np.nan)
ReplaceInf(x) == IF IsFinite(x) THEN x ELSE NaN

\* a ranking without gaps: 1 + the number of distinct larger values
RankDense(values, i) ==
    1 + Cardinality({values[k] : k \in {k \in 1..Len(values) : FGt(values[k], values[i])}})

\* .rank(ascending=False, method="min") at position i: 1 + the number of larger
\* values (pandas gives the whole number as a float64)
RankMin(values, i) ==
    1 + Cardinality({k \in 1..Len(values) : FGt(values[k], values[i])})

\* the difference taken the other way round
RankChangeReversed(rank_start, rank_end) == rank_end - rank_start

\* comparison["rank_change"]
RankChange(rank_start, rank_end) == rank_start - rank_end

\* the comparison frame with its change and rank columns
WithChanges(comparison) ==
    [i \in 1..Len(comparison) |->
        LET r == comparison[i]
            value_change == FSub(r.value_end, r.value_start)
            rank_start == RankMin(Column(comparison, "value_start"), i)
            rank_end == RankMin(Column(comparison, "value_end"), i)
        IN  [country |-> r.country,
             value_start |-> r.value_start, share_start |-> r.share_start,
             value_end |-> r.value_end, share_end |-> r.share_end,
             value_change |-> value_change,
             share_change |-> FSub(r.share_end, r.share_start),
             value_growth_pct |-> ReplaceInf(FMul(FDiv(value_change, r.value_start), Int2F(100))),
             rank_start |-> rank_start,
             rank_end |-> rank_end,
             rank_change |-> RankChange(rank_start, rank_end)]]

\* the n rows with the largest values of col, largest first, the first of equal
\* rows first: nlargest(n, col), and sort_values(col, ascending=False) for n = len
RECURSIVE NLargest(_, _, _)
NLargest(frame, n, col) ==
    IF n = 0 \/ frame = <<>> THEN <<>>
    ELSE LET i == CHOOSE i \in 1..Len(frame) :
                     /\ \A j \in 1..Len(frame) : ~FGt(frame[j][col], frame[i][col])
                     /\ \A j \in 1..(i - 1) : frame[j][col] # frame[i][col]
         IN  <<frame[i]>> \o NLargest(SubSeq(frame, 1, i - 1) \o SubSeq(frame, i + 1, Len(frame)),
                                      n - 1, col)

\* nsmallest(n, col)
RECURSIVE NSmallest(_, _, _)
NSmallest(frame, n, col) ==
    IF n = 0 \/ frame = <<>> THEN <<>>
    ELSE LET i == CHOOSE i \in 1..Len(frame) :
                     /\ \A j \in 1..Len(frame) : ~FLt(frame[j][col], frame[i][col])
                     /\ \A j \in 1..(i - 1) : frame[j][col] # frame[i][col]
         IN  <<frame[i]>> \o NSmallest(SubSeq(frame, 1, i - 1) \o SubSeq(frame, i + 1, Len(frame)),
                                       n - 1, col)

\* frame[cols]
Select(frame, cols) == [i \in 1..Len(frame) |-> [c \in cols |-> frame[i][c]]]

\* .head(n)
HeadRows(frame, n) == SubSeq(frame, 1, IF n < Len(frame) THEN n ELSE Len(frame))

\* analyze_country_shifts; value_<start_year> is value_start, value_<end_year> is
\* value_end, and so for share and rank
analyze_country_shifts(df, start_year, end_year, top_n) ==
    LET start_data  == YearData(df, start_year)
        end_data    == YearData(df, end_year)
        start_total == SumSkipNa(Column(start_data, "value"))
        end_total   == SumSkipNa(Column(end_data, "value"))
        comparison  == NLargest(WithChanges(FillNa(OuterMerge(start_data, end_data))),
                                Len(OuterMerge(start_data, end_data)), "value_end")
        change_cols == {"country", "share_start", "share_end", "share_change", "value_growth_pct"}
    IN  [comparison |-> comparison,
         summary  |-> <<start_total, end_total, FSub(end_total, start_total),
                        FMul(FDiv(FSub(end_total, start_total), start_total), Int2F(100)),
                        Int2F(Len(start_data)), Int2F(Len(end_data))>>,
         gainers  |-> Select(NLargest(comparison, top_n, "share_change"), change_cols),
         losers   |-> Select(NSmallest(comparison, top_n, "share_change"), change_cols),
         rankings |-> Select(HeadRows(comparison, top_n),
                             {"country", "rank_start", "rank_end", "rank_change"})]

\* the value a Series indexed by country has for a label, NaN for a label it lacks
\* (the alignment of two Series on the union of their indexes)
ValueAt(rows, country) ==
    LET hit == SelectSeq(rows, LAMBDA r : r.country = country)
    IN  IF hit = <<>> THEN NaN ELSE hit[1].value

\* the index of the combined frame: the common index when the two Series have the
\* same one, else the sorted union of the two
UnionIndex(start_rows, end_rows) ==
    IF Column(start_rows, "country") = Column(end_rows, "country")
    THEN Column(start_rows, "country")
    ELSE SortStrings({start_rows[i].country : i \in 1..Len(start_rows)}
                     \cup {end_rows[j].country : j \in 1..Len(end_rows)})

\* a filter that asks for the growth alone
QualifiesOnGrowthAlone(growth_pct, end_share, growth_threshold_, min_final_share_) ==
    FGe(growth_pct, growth_threshold_)

\* (growth_pct >= growth_threshold) & (end_share >= min_final_share)
Qualifies(growth_pct, end_share, growth_threshold_, min_final_share_) ==
    FGe(growth_pct, growth_threshold_) /\ FGe(end_share, min_final_share_)

\* identify_emerging_partners; max() of no years is NaN and no row passes the filters
identify_emerging_partners(df, lookback_years, growth_threshold, min_final_share) ==
    IF df = <<>> THEN <<>>
    ELSE
    LET max_year     == MaxOf({df[i].year : i \in 1..Len(df)})
        min_year     == max_year - lookback_years
        period_df    == SelectSeq(df, LAMBDA r : r.year >= min_year)
        start_values == SelectSeq(period_df, LAMBDA r : r.year = min_year)
        end_values   == SelectSeq(period_df, LAMBDA r : r.year = max_year)
        end_total    == SumSkipNa(Column(end_values, "value"))
        index        == UnionIndex(start_values, end_values)
        emerging_all ==
            [k \in 1..Len(index) |->
                LET start_value == ValueAt(start_values, index[k])
                    end_value   == ValueAt(end_values, index[k])
                IN  [country     |-> index[k],
                     start_value |-> start_value,
                     end_value   |-> end_value,
                     growth_pct  |-> ReplaceInf(FMul(FDiv(FSub(end_value, start_value), start_value),
                                                     Int2F(100))),
                     end_share   |-> FMul(FDiv(end_value, end_total), Int2F(100))]]
    IN  NLargest(SelectSeq(emerging_all,
                           LAMBDA r : Qualifies(r.growth_pct, r.end_share,
                                                growth_threshold, min_final_share)),
                 Len(emerging_all), "growth_pct")

\* analyze_country_shifts not called yet: no results
NoShifts == [comparison |-> <<>>, summary |-> <<>>, gainers |-> <<>>, losers |-> <<>>, rankings |-> <<>>]

(***************************************************************************)
(* The pipeline's own steps (scripts/process_monthly_data.py)              *)
(***************************************************************************)
\* an aggregation that scales every value to twelve months
aggregate_to_annual_annualized(monthly) ==
    LET annual == aggregate_monthly_to_annual(monthly)
    IN  [i \in 1..Len(annual) |->
            [WithCol(annual[i], "trade_type", "import") EXCEPT
                !.value = FMul(FMul(@, Int2F(BillionsToUSD)),
                               FDiv(Int2F(MonthsPerYear), Int2F(annual[i].month_count)))]]

\* aggregate_to_annual: the annual aggregates, tagged as imports, billions to USD
aggregate_to_annual(monthly) ==
    LET annual == aggregate_monthly_to_annual(monthly)
    IN  [i \in 1..Len(annual) |->
            [WithCol(annual[i], "trade_type", "import") EXCEPT
                !.value = FMul(@, Int2F(BillionsToUSD))]]

\* the input files of the run
file_2024 == "data/raw/usitc/imports_monthly_2024.csv"

file_2025 == "data/raw/usitc/imports_monthly_2025.csv"

historical_file == "data/processed/trade_data_1995_2024.csv"

deflator_file == "data/reference/gdp_deflator.csv"

\* raise FileNotFoundError(...): the exception, with the path its message names
FileNotFoundError(path) == <<"FileNotFoundError", path>>

\* a test for the 2024 file only
load_monthly_files_error_2024_only(existing) ==
    IF file_2024 \notin existing THEN FileNotFoundError(file_2024) ELSE <<>>

\* load_monthly_files: the exception raised when a file does not exist, <<>> if none
load_monthly_files_error(existing) ==
    IF file_2024 \notin existing THEN FileNotFoundError(file_2024)
    ELSE IF file_2025 \notin existing THEN FileNotFoundError(file_2025)
    ELSE <<>>

\* load_historical_data: the exception raised when the file does not exist, <<>> if none
load_historical_data_error(existing) ==
    IF historical_file \notin existing THEN FileNotFoundError(historical_file) ELSE <<>>

\* pd.read_csv of the deflator file in process_data
read_deflator_error(existing) ==
    IF deflator_file \notin existing THEN FileNotFoundError(deflator_file) ELSE <<>>

\* save_output: the file written, named after the last year of the data
output_file(df) ==
    [path |-> <<"data/processed/trade_data_1995_", MaxOf({df[i].year : i \in 1..Len(df)})>>,
     rows |-> df]

\* min(monthly_years) - 1
historical_cutoff(monthly_annual_df) ==
    MinOf({monthly_annual_df[i].year : i \in 1..Len(monthly_annual_df)}) - 1

\* a filter that also keeps the historical rows of the first monthly year
KeepHistoricalThroughMinYear(r, cutoff) == r.year <= cutoff + 1 /\ r.trade_type = "import"

\* a filter that drops the historical rows of the cutoff year itself
KeepHistoricalBeforeCutoff(r, cutoff) == r.year < cutoff /\ r.trade_type = "import"

\* the historical rows merge_data keeps
KeepHistorical(r, cutoff) == r.year <= cutoff /\ r.trade_type = "import"

common_cols == {"country", "year", "value", "trade_type", "is_ytd", "month_count", "last_month"}

\* a backfill that marks the historical rows as having no month on record
historical_filtered_no_months(historical, monthly_annual_df) ==
    LET kept == SelectSeq(historical,
                          LAMBDA r : KeepHistorical(r, historical_cutoff(monthly_annual_df)))
    IN  [i \in 1..Len(kept) |->
            WithCol(WithCol(WithCol(kept[i], "is_ytd", FALSE), "month_count", 0), "last_month", 0)]

\* the historical rows kept, with the YTD columns backfilled
historical_filtered(historical, monthly_annual_df) ==
    LET kept == SelectSeq(historical,
                          LAMBDA r : KeepHistorical(r, historical_cutoff(monthly_annual_df)))
    IN  [i \in 1..Len(kept) |->
            WithCol(WithCol(WithCol(kept[i], "is_ytd", FALSE),
                            "month_count", HistoricalMonthCount), "last_month", HistoricalLastMonth)]

\* df[common_cols]
SelectCommon(df) == [i \in 1..Len(df) |-> [c \in common_cols |-> df[i][c]]]

\* the value of a column that merge_data adds because it is missing
None == "None"

\* "if col not in <frame>.columns: <frame>[col] = None" for every common column:
\* the frame itself gets the column
EnsureCommonCols(df) ==
    [i \in 1..Len(df) |->
        [c \in common_cols \cup DOMAIN df[i] |-> IF c \in DOMAIN df[i] THEN df[i][c] ELSE None]]

\* merge_data (monthly_annual_df is not empty: min() of no years raises)
merge_data(historical, monthly_annual_df) ==
    SelectCommon(EnsureCommonCols(historical_filtered(historical, monthly_annual_df)))
        \o SelectCommon(EnsureCommonCols(monthly_annual_df))

\* the caller's monthly_annual_df after merge_data returned: it is the frame the
\* missing columns were added to, no copy of it was made
monthly_annual_df_after_merge(monthly_annual_df) == EnsureCommonCols(monthly_annual_df)

\* process_data: standardize, deflate to base year 2020, shares, growth, period
process_data(df, deflator_df) ==
    add_historical_period(
        calculate_yoy_growth(
            calculate_country_shares(
                adjust_for_inflation(standardize_country_names(df), deflator_df, PipelineBaseYear),
                "value_real"),
            "value_real"))

(***************************************************************************)
(* Bounds and the inputs drawn within them                                 *)
(***************************************************************************)
\* rows of the two monthly files together
MaxWideRows == 2

\* rows of the historical file
MaxHistRows == 2

\* largest value, in USD, of a historical row
MaxHistValue == 2

China == <<"C", "h", "i", "n", "a">>

ChinaPR == <<"C", "H", "I", "N", "A", ",", " ", "P", ".", "R", ".">>

Peru == <<"P", "e", "r", "u">>

Total == <<"T", "o", "t", "a", "l">>

\* the column names "1", ..., "12" of a full monthly table
MonthNames ==
    <<<<"1">>, <<"2">>, <<"3">>, <<"4">>, <<"5">>, <<"6">>, <<"7">>, <<"8">>, <<"9">>,
      <<"1", "0">>, <<"1", "1">>, <<"1", "2">>>>

\* the headers of the monthly files: the twelve months; a month that comes twice,
\* once zero-padded; a column past December; a column that is no month
Headers ==
    {MonthNames,
     <<<<"1">>, <<"0", "1">>>>,
     <<<<"1", "2">>, <<"1", "3">>>>,
     <<<<"1">>, Total>>}

WideLabels == {China, ChinaPR, Peru, Total}

MonthlyYears == {2024, 2025}

\* a monthly value of 1 USD, in billions as the files give it
OneDollar == Norm(1, BillionsToUSD)

\* a cell that holds no figure
TextCell == [isnum |-> FALSE, v |-> NaN, text |-> <<"n", "/", "a">>]

\* a figure written with a thousands separator, which the file has in quotes
CommaCell == [isnum |-> FALSE, v |-> NaN, text |-> <<"1", ",", "0", "0", "0">>]

NumCell(x) == [isnum |-> TRUE, v |-> x, text |-> <<>>]

\* the cells of a row of n columns: the columns of Present carry a value, the
\* others in turn a text that is no figure, a negative number, a figure with a
\* thousands separator (third column only) and a zero
Cells(n, Present) ==
    [j \in 1..n |-> IF j \in Present THEN NumCell(OneDollar)
                    ELSE CASE j % 4 = 1 -> TextCell
                           [] j % 4 = 2 -> NumCell(<<-1, 1>>)
                           [] j = 3 -> CommaCell
                           [] OTHER -> NumCell(<<0, 1>>)]

\* the sets of columns that carry a value: the first 1, 7 or all n, or only the last
Presences(n) == {1..k : k \in {1, 7, n} \cap 1..n} \cup {{n}}

WideRows(columns) ==
    {[country |-> c, year |-> y, cells |-> Cells(Len(columns), P)] :
        c \in WideLabels, y \in MonthlyYears, P \in Presences(Len(columns))}

RECURSIVE SeqsUpTo(_, _)
SeqsUpTo(S, n) ==
    IF n = 0 THEN {<<>>}
    ELSE LET shorter == SeqsUpTo(S, n - 1)
         IN  shorter \cup {Append(s, x) : s \in {t \in shorter : Len(t) = n - 1}, x \in S}

\* the tables a monthly file can hold, with at most n rows
WideTables(n) ==
    UNION {{[columns |-> h, rows |-> rs] : rs \in SeqsUpTo(WideRows(h), n)} : h \in Headers}

HistYears == {2023, 2024}

HistRows ==
    {[country |-> China, year |-> y, value |-> Int2F(v), trade_type |-> t] :
        y \in HistYears, v \in {MaxHistValue}, t \in {"import", "export"}}

\* the historical file is an earlier output: one row per (country, year, trade_type)
HistTables ==
    {t \in SeqsUpTo(HistRows, MaxHistRows) :
        \A i, j \in 1..Len(t) :
            i # j => <<t[i].country, t[i].year, t[i].trade_type>>
                     # <<t[j].country, t[j].year, t[j].trade_type>>}

\* the GDP deflator reference file: complete, or not yet extended to 2025
DeflatorFull ==
    <<[year |-> 2020, deflator |-> Int2F(100)], [year |-> 2023, deflator |-> Int2F(120)],
      [year |-> 2024, deflator |-> Int2F(125)], [year |-> 2025, deflator |-> Int2F(125)]>>

DeflatorFiles == {DeflatorFull, SubSeq(DeflatorFull, 1, 3)}

\* rows of a dataset handed to calculate_yoy_growth
MaxGrowthRows == 3

\* largest value of a row of such a dataset
MaxGrowthValue == 2

GrowthYears == {2019, 2020, 2021}

GrowthRows ==
    {[country |-> c, year |-> y, trade_type |-> t, value |-> Int2F(v)] :
        c \in {China, Peru}, y \in GrowthYears, t \in {"export", "import"}, v \in 0..MaxGrowthValue}

\* the datasets of at most n rows in any order, one row per (country, year, trade_type)
RECURSIVE GrowthDatasetsUpTo(_)
GrowthDatasetsUpTo(n) ==
    IF n = 0 THEN {<<>>}
    ELSE LET shorter == GrowthDatasetsUpTo(n - 1)
         IN  shorter \cup
             {Append(p[1], p[2]) : p \in
                 {q \in {t \in shorter : Len(t) = n - 1} \X GrowthRows :
                     \A k \in 1..Len(q[1]) :
                         <<q[1][k].country, q[1][k].year, q[1][k].trade_type>>
                             # <<q[2].country, q[2].year, q[2].trade_type>>}}

GrowthDatasets == GrowthDatasetsUpTo(MaxGrowthRows)

\* largest value of a row of a dataset handed to analyze_country_shifts
MaxShiftValue == 2

\* largest top_n below the default
MaxTopN == 2

Chile == <<"C", "h", "i", "l", "e">>

ShiftYears == {2019, 2020}

\* the (country, year) pairs a dataset may have a row for, in the rows' order
ShiftKeys ==
    <<<<China, 2019>>, <<Peru, 2019>>, <<Chile, 2019>>,
      <<China, 2020>>, <<Peru, 2020>>, <<Chile, 2020>>>>

\* the rows of a dataset given the value of each key, -1 for a key without a row
RECURSIVE RowsOfValues(_, _)
RowsOfValues(keys, f) ==
    IF keys = <<>> THEN <<>>
    ELSE (IF f[Len(f) - Len(keys) + 1] = -1 THEN <<>>
          ELSE <<[country |-> Head(keys)[1], year |-> Head(keys)[2], trade_type |-> "import",
                  value |-> Int2F(f[Len(f) - Len(keys) + 1])]>>)
         \o RowsOfValues(Tail(keys), f)

\* the datasets with at most one row per country and year
ShiftDatasets ==
    {RowsOfValues(ShiftKeys, f) : f \in [1..Len(ShiftKeys) -> -1..MaxShiftValue]}

TopNs == 1..MaxTopN \cup {DefaultTopN}

\* largest value of a row of a dataset handed to identify_emerging_partners
MaxEmergingValue == 2

\* longest lookback below the default
MaxLookback == 2

EmergingKeys ==
    <<<<China, 2019>>, <<Peru, 2019>>, <<China, 2020>>, <<Peru, 2020>>,
      <<China, 2021>>, <<Peru, 2021>>>>

\* a country that goes from 10 to 30 over the default lookback and ends with
\* 30 / 1200 = 2.5% of the final year's total
EmergingExample ==
    <<[country |-> China, year |-> 2021 - DefaultLookbackYears, trade_type |-> "import",
       value |-> Int2F(10)],
      [country |-> China, year |-> 2021, trade_type |-> "import", value |-> Int2F(30)],
      [country |-> Peru, year |-> 2021, trade_type |-> "import", value |-> Int2F(1170)]>>

\* the datasets with at most one row per country and year
EmergingDatasets ==
    {RowsOfValues(EmergingKeys, f) : f \in [1..Len(EmergingKeys) -> -1..MaxEmergingValue]}
        \cup {EmergingExample}

LookbackYears == 1..MaxLookback \cup {DefaultLookbackYears}

GrowthThresholds == {Int2F(-100), Int2F(0), Int2F(DefaultGrowthThreshold)}

MinFinalShares == {Int2F(DefaultMinFinalShare), Int2F(5), Int2F(50)}

\* points of a series handed to detect_structural_breaks
MaxSeriesLen == 6

\* largest value of a point of such a series
MaxSeriesValue == 2

\* the first year of a series
SeriesFirstYear == 2001

\* the series of at most MaxSeriesLen consecutive years
SeriesInputs ==
    {[i \in 1..Len(s) |-> [year |-> SeriesFirstYear + i - 1, value |-> Int2F(s[i])]] :
        s \in SeqsUpTo(0..MaxSeriesValue, MaxSeriesLen)}

Windows == 3..DefaultWindow

Thresholds == {Int2F(-1), Int2F(1), Int2F(DefaultThreshold)}

\* rows of a dataset handed to a library function
MaxRows == 3

\* largest value of a row of such a dataset
MaxValue == 2

\* rows of a deflator table handed to adjust_for_inflation
MaxDeflatorRows == 2

DataYears == {2019, 2020}

DataRows ==
    {[country |-> c, year |-> y, trade_type |-> t, value |-> Int2F(v)] :
        c \in {China, Peru}, y \in DataYears, t \in {"export", "import"}, v \in 0..MaxValue}

\* an order on the keys of the rows, to list every dataset once
RowLt(a, b) ==
    \/ KeyLt(<<a.country, a.year>>, <<b.country, b.year>>)
    \/ /\ <<a.country, a.year>> = <<b.country, b.year>>
       /\ a.trade_type = "export"
       /\ b.trade_type = "import"

\* the datasets of at most n rows, one row per (country, year, trade_type)
RECURSIVE DatasetsUpTo(_)
DatasetsUpTo(n) ==
    IF n = 0 THEN {<<>>}
    ELSE LET shorter == DatasetsUpTo(n - 1)
         IN  shorter \cup
             {Append(s, x) : <<s, x>> \in
                 {p \in {t \in shorter : Len(t) = n - 1} \X DataRows :
                     p[1] = <<>> \/ RowLt(p[1][Len(p[1])], p[2])}}

Datasets == DatasetsUpTo(MaxRows)

DeflatorRows ==
    {[year |-> y, deflator |-> Int2F(d)] : y \in DataYears, d \in {0, 100, 125}}

DeflatorTables == SeqsUpTo(DeflatorRows, MaxDeflatorRows)

(***************************************************************************)
(* State                                                                   *)
(***************************************************************************)
VARIABLES
    lib_merged,  \* the result of merge_data called on its own
    merge_arg,  \* the monthly_annual_df passed to merge_data, as it was at the call
    agg_df,  \* the caller's frame of annual aggregates (aggregate_monthly_to_annual's result)
    output_files,  \* the files save_output has written: path and rows
    hhi_result,  \* the result of calculate_hhi called on its own
    long_df,  \* the result of parse_monthly_wide_format
    wide_df,  \* the wide monthly table passed to parse_monthly_wide_format
    restandardized,  \* the result of standardizing that result again
    standardized,  \* the result of standardize_country_names
    error,  \* the exception that ended the run: its type and the path it names
    files,  \* the input files that exist
    period,  \* the result of get_historical_period
    period_year,  \* get_historical_period's year
    pc,             \* the step reached
    monthly_df,     \* main(): the long monthly records
    annual_df,      \* main(): the annual aggregates of the monthly records
    historical_df,  \* main(): the historical annual data
    merged_df,      \* main(): the merged dataset
    deflator_df,    \* the deflator table read or passed in
    processed_df,   \* main(): the pipeline's output
    hhi_df,         \* the HHI records of the output
    annualized_df,  \* the result of an explicit annualize_ytd_value call
    df,             \* the dataset passed to a library function
    base_year,      \* adjust_for_inflation's base_year
    value_col,      \* calculate_country_shares' value_col
    adjusted_df,    \* the result of adjust_for_inflation
    shares_df,      \* the result of calculate_country_shares
    growth_df,      \* the result of calculate_yoy_growth
    start_year,     \* analyze_country_shifts' start_year
    end_year,       \* analyze_country_shifts' end_year
    top_n,          \* analyze_country_shifts' top_n
    shifts,         \* the results of analyze_country_shifts
    lookback_years,     \* identify_emerging_partners' lookback_years
    growth_threshold,   \* identify_emerging_partners' growth_threshold
    min_final_share,    \* identify_emerging_partners' min_final_share
    emerging,       \* the result of identify_emerging_partners
    series,         \* detect_structural_breaks' series
    window,         \* detect_structural_breaks' window
    threshold,      \* detect_structural_breaks' threshold
    breaks          \* the result of detect_structural_breaks

pipeVars == <<monthly_df, annual_df, historical_df, merged_df, processed_df, hhi_df, annualized_df>>

fnVars == <<df, base_year, value_col, adjusted_df, shares_df>>

\* the arguments and results of the analysis functions
anVars == <<growth_df, start_year, end_year, top_n, shifts, lookback_years,
            growth_threshold, min_final_share, emerging, series, window, threshold, breaks>>

\* the arguments and results of the classification, parsing and merging functions
periodVars == <<period_year, period>>

\* the results of standardize_country_names on df and on its own result
nameVars == <<standardized, restandardized>>

\* a wide monthly table and what parse_monthly_wide_format makes of it
parseVars == <<wide_df, long_df>>

\* the annual aggregates of the long records and their merge with a historical table
aggVars == <<agg_df, merge_arg, lib_merged>>

libVars == <<periodVars, nameVars, parseVars, hhi_result, aggVars>>

\* the files main() reads and writes, and the exception that ended the run
ioVars == <<files, error, output_files>>

vars == <<pc, deflator_df, pipeVars, fnVars, anVars, libVars, ioVars>>

(***************************************************************************)
(* The pipeline: main() of scripts/process_monthly_data.py                 *)
(***************************************************************************)
\* the files the run reads; any of them may be missing
InputFiles == {file_2024, file_2025, historical_file, deflator_file}

Init ==
    /\ pc = "start"
    /\ monthly_df = <<>>
    /\ annual_df = <<>>
    /\ historical_df = <<>>
    /\ merged_df = <<>>
    /\ deflator_df = <<>>
    /\ processed_df = <<>>
    /\ hhi_df = <<>>
    /\ annualized_df = <<>>
    /\ df = <<>>
    /\ base_year = PipelineBaseYear
    /\ value_col = "value_real"
    /\ adjusted_df = <<>>
    /\ shares_df = <<>>
    /\ growth_df = <<>>
    /\ start_year = 0
    /\ end_year = 0
    /\ top_n = DefaultTopN
    /\ shifts = NoShifts
    /\ lookback_years = DefaultLookbackYears
    /\ growth_threshold = Int2F(DefaultGrowthThreshold)
    /\ min_final_share = Int2F(DefaultMinFinalShare)
    /\ emerging = <<>>
    /\ series = <<>>
    /\ window = DefaultWindow
    /\ threshold = Int2F(DefaultThreshold)
    /\ breaks = <<>>
    /\ lib_merged = <<>>
    /\ merge_arg = <<>>
    /\ agg_df = <<>>
    /\ output_files = {}
    /\ hhi_result = <<>>
    /\ long_df = <<>>
    /\ wide_df = [columns |-> <<>>, rows |-> <<>>]
    /\ restandardized = <<>>
    /\ standardized = <<>>
    /\ error = <<>>
    /\ files \in SUBSET InputFiles
    /\ period = ""
    /\ period_year = 0

\* load_monthly_files: read the two files, parse each, concatenate
LoadMonthlyFiles ==
    /\ pc = "start"
    /\ IF load_monthly_files_error(files) # <<>>
       THEN /\ error' = load_monthly_files_error(files)
            /\ pc' = "failed"
            /\ UNCHANGED monthly_df
       ELSE /\ \E n \in 0..MaxWideRows :
                 \E df_2024 \in WideTables(n), df_2025 \in WideTables(MaxWideRows - n) :
                    monthly_df' = Concat(<<parse_monthly_wide_format(df_2024, "import"),
                                           parse_monthly_wide_format(df_2025, "import")>>)
            /\ pc' = "loaded"
            /\ UNCHANGED error
    /\ UNCHANGED <<annual_df, historical_df, merged_df, processed_df, hhi_df, annualized_df>>
    /\ UNCHANGED <<deflator_df, fnVars>>
    /\ UNCHANGED anVars
    /\ UNCHANGED <<libVars, files, output_files>>

\* aggregate_to_annual
AggregateToAnnual ==
    /\ pc = "loaded"
    /\ annual_df' = aggregate_to_annual(monthly_df)
    /\ pc' = "aggregated"
    /\ UNCHANGED <<monthly_df, historical_df, merged_df, processed_df, hhi_df, annualized_df>>
    /\ UNCHANGED <<deflator_df, fnVars>>
    /\ UNCHANGED anVars
    /\ UNCHANGED <<libVars, ioVars>>

\* an explicit call of annualize_ytd_value on the aggregates; main() makes none
AnnualizeYtd ==
    /\ pc = "aggregated"
    /\ annualized_df' = annualize_ytd_value(annual_df)
    /\ pc' = "annualized"
    /\ UNCHANGED <<monthly_df, annual_df, historical_df, merged_df, processed_df, hhi_df>>
    /\ UNCHANGED <<deflator_df, fnVars>>
    /\ UNCHANGED anVars
    /\ UNCHANGED <<libVars, ioVars>>

\* load_historical_data
LoadHistoricalData ==
    /\ pc = "aggregated"
    /\ IF load_historical_data_error(files) # <<>>
       THEN /\ error' = load_historical_data_error(files)
            /\ pc' = "failed"
            /\ UNCHANGED historical_df
       ELSE /\ historical_df' \in HistTables
            /\ pc' = "historical"
            /\ UNCHANGED error
    /\ UNCHANGED <<monthly_df, annual_df, merged_df, processed_df, hhi_df, annualized_df>>
    /\ UNCHANGED <<deflator_df, fnVars>>
    /\ UNCHANGED anVars
    /\ UNCHANGED <<libVars, files, output_files>>

\* merge_data; min() of no monthly years raises ValueError and the run ends
MergeData ==
    /\ pc = "historical"
    /\ IF annual_df = <<>>
       THEN /\ pc' = "failed"
            /\ error' = <<"ValueError", "">>
            /\ UNCHANGED merged_df
       ELSE /\ merged_df' = merge_data(historical_df, annual_df)
            /\ pc' = "merged"
            /\ UNCHANGED error
    /\ UNCHANGED <<monthly_df, annual_df, historical_df, processed_df, hhi_df, annualized_df>>
    /\ UNCHANGED <<deflator_df, fnVars>>
    /\ UNCHANGED anVars
    /\ UNCHANGED <<libVars, files, output_files>>

\* process_data, which reads the deflator file
ProcessData ==
    /\ pc = "merged"
    /\ IF read_deflator_error(files) # <<>>
       THEN /\ error' = read_deflator_error(files)
            /\ pc' = "failed"
            /\ UNCHANGED <<deflator_df, processed_df>>
       ELSE /\ deflator_df' \in DeflatorFiles
            /\ processed_df' = process_data(merged_df, deflator_df')
            /\ pc' = "processed"
            /\ UNCHANGED error
    /\ UNCHANGED <<monthly_df, annual_df, historical_df, merged_df, hhi_df, annualized_df>>
    /\ UNCHANGED fnVars
    /\ UNCHANGED anVars
    /\ UNCHANGED <<libVars, files, output_files>>

\* calculate_hhi on the pipeline's output
CalculateHHI ==
    /\ pc = "processed"
    /\ hhi_df' = calculate_hhi(processed_df, "value")
    /\ pc' = "analysed"
    /\ UNCHANGED <<monthly_df, annual_df, historical_df, merged_df, processed_df, annualized_df>>
    /\ UNCHANGED <<deflator_df, fnVars>>
    /\ UNCHANGED anVars
    /\ UNCHANGED <<libVars, ioVars>>

\* validate_data (prints only) and save_output
SaveOutput ==
    /\ pc = "processed"
    /\ output_files' = output_files \cup {output_file(processed_df)}
    /\ pc' = "saved"
    /\ UNCHANGED <<deflator_df, pipeVars, fnVars>>
    /\ UNCHANGED anVars
    /\ UNCHANGED <<libVars, files, error>>

Next ==
    \/ LoadMonthlyFiles
    \/ AggregateToAnnual
    \/ AnnualizeYtd
    \/ LoadHistoricalData
    \/ MergeData
    \/ ProcessData
    \/ CalculateHHI
    \/ SaveOutput

Spec == Init /\ [][Next]_vars

(***************************************************************************)
(* The library functions on datasets passed in by a caller                 *)
(***************************************************************************)
FnInit ==
    /\ pc = "input"
    /\ df \in Datasets
    /\ base_year = PipelineBaseYear
    /\ value_col = "value"
    /\ adjusted_df = <<>>
    /\ shares_df = <<>>
    /\ deflator_df = <<>>
    /\ monthly_df = <<>>
    /\ annual_df = <<>>
    /\ historical_df = <<>>
    /\ merged_df = <<>>
    /\ processed_df = <<>>
    /\ hhi_df = <<>>
    /\ annualized_df = <<>>
    /\ growth_df = <<>>
    /\ start_year = 0
    /\ end_year = 0
    /\ top_n = DefaultTopN
    /\ shifts = NoShifts
    /\ lookback_years = DefaultLookbackYears
    /\ growth_threshold = Int2F(DefaultGrowthThreshold)
    /\ min_final_share = Int2F(DefaultMinFinalShare)
    /\ emerging = <<>>
    /\ series = <<>>
    /\ window = DefaultWindow
    /\ threshold = Int2F(DefaultThreshold)
    /\ breaks = <<>>
    /\ lib_merged = <<>>
    /\ merge_arg = <<>>
    /\ agg_df = <<>>
    /\ output_files = {}
    /\ hhi_result = <<>>
    /\ long_df = <<>>
    /\ wide_df = [columns |-> <<>>, rows |-> <<>>]
    /\ restandardized = <<>>
    /\ standardized = <<>>
    /\ error = <<>>
    /\ files = {}
    /\ period = ""
    /\ period_year = 0

\* adjust_for_inflation(df, deflator_df, base_year=...)
AdjustForInflation ==
    /\ pc = "input"
    /\ deflator_df' \in DeflatorTables
    /\ base_year' \in DataYears
    /\ adjusted_df' = adjust_for_inflation(df, deflator_df', base_year')
    /\ pc' = "adjusted"
    /\ UNCHANGED <<df, value_col, shares_df, pipeVars>>
    /\ UNCHANGED anVars
    /\ UNCHANGED <<libVars, ioVars>>

\* calculate_country_shares(df) on the nominal values
SharesOfValue ==
    /\ pc = "input"
    /\ value_col' = "value"
    /\ shares_df' = calculate_country_shares(df, "value")
    /\ pc' = "shares"
    /\ UNCHANGED <<df, base_year, adjusted_df, deflator_df, pipeVars>>
    /\ UNCHANGED anVars
    /\ UNCHANGED <<libVars, ioVars>>

\* calculate_country_shares(df, value_col="value_real") on the adjusted values
SharesOfValueReal ==
    /\ pc = "adjusted"
    /\ value_col' = "value_real"
    /\ shares_df' = calculate_country_shares(adjusted_df, "value_real")
    /\ pc' = "shares"
    /\ UNCHANGED <<df, base_year, adjusted_df, deflator_df, pipeVars>>
    /\ UNCHANGED anVars
    /\ UNCHANGED <<libVars, ioVars>>

FnNext ==
    \/ AdjustForInflation
    \/ SharesOfValue
    \/ SharesOfValueReal

FnSpec == FnInit /\ [][FnNext]_vars

(***************************************************************************)
(* The growth and analysis functions on datasets passed in by a caller     *)
(***************************************************************************)
AnInit ==
    /\ pc = "input"
    /\ df = <<>>
    /\ base_year = PipelineBaseYear
    /\ value_col = "value"
    /\ adjusted_df = <<>>
    /\ shares_df = <<>>
    /\ deflator_df = <<>>
    /\ monthly_df = <<>>
    /\ annual_df = <<>>
    /\ historical_df = <<>>
    /\ merged_df = <<>>
    /\ processed_df = <<>>
    /\ hhi_df = <<>>
    /\ annualized_df = <<>>
    /\ growth_df = <<>>
    /\ start_year = 0
    /\ end_year = 0
    /\ top_n = DefaultTopN
    /\ shifts = NoShifts
    /\ lookback_years = DefaultLookbackYears
    /\ growth_threshold = Int2F(DefaultGrowthThreshold)
    /\ min_final_share = Int2F(DefaultMinFinalShare)
    /\ emerging = <<>>
    /\ series = <<>>
    /\ window = DefaultWindow
    /\ threshold = Int2F(DefaultThreshold)
    /\ breaks = <<>>
    /\ lib_merged = <<>>
    /\ merge_arg = <<>>
    /\ agg_df = <<>>
    /\ output_files = {}
    /\ hhi_result = <<>>
    /\ long_df = <<>>
    /\ wide_df = [columns |-> <<>>, rows |-> <<>>]
    /\ restandardized = <<>>
    /\ standardized = <<>>
    /\ error = <<>>
    /\ files = {}
    /\ period = ""
    /\ period_year = 0

\* calculate_yoy_growth(df)
CalculateYoyGrowth ==
    /\ pc = "input"
    /\ df' \in GrowthDatasets
    /\ growth_df' = calculate_yoy_growth(df', "value")
    /\ pc' = "growth"
    /\ UNCHANGED <<base_year, value_col, adjusted_df, shares_df, deflator_df, pipeVars>>
    /\ UNCHANGED <<start_year, end_year, top_n, shifts>>
    /\ UNCHANGED <<lookback_years, growth_threshold, min_final_share, emerging>>
    /\ UNCHANGED <<series, window, threshold, breaks>>
    /\ UNCHANGED <<libVars, ioVars>>

\* analyze_country_shifts(df, start_year, end_year, top_n=...)
AnalyzeCountryShifts ==
    /\ pc = "input"
    /\ df' \in ShiftDatasets
    /\ start_year' \in ShiftYears
    /\ end_year' \in ShiftYears \ {start_year'}
    /\ top_n' \in TopNs
    /\ shifts' = analyze_country_shifts(df', start_year', end_year', top_n')
    /\ pc' = "shifts"
    /\ UNCHANGED <<base_year, value_col, adjusted_df, shares_df, deflator_df, pipeVars>>
    /\ UNCHANGED growth_df
    /\ UNCHANGED <<lookback_years, growth_threshold, min_final_share, emerging>>
    /\ UNCHANGED <<series, window, threshold, breaks>>
    /\ UNCHANGED <<libVars, ioVars>>

\* identify_emerging_partners(df, lookback_years=..., growth_threshold=..., min_final_share=...)
IdentifyEmergingPartners ==
    /\ pc = "input"
    /\ df' \in EmergingDatasets
    /\ lookback_years' \in LookbackYears
    /\ growth_threshold' \in GrowthThresholds
    /\ min_final_share' \in MinFinalShares
    /\ emerging' = identify_emerging_partners(df', lookback_years', growth_threshold', min_final_share')
    /\ pc' = "emerging"
    /\ UNCHANGED <<base_year, value_col, adjusted_df, shares_df, deflator_df, pipeVars>>
    /\ UNCHANGED growth_df
    /\ UNCHANGED <<start_year, end_year, top_n, shifts>>
    /\ UNCHANGED <<series, window, threshold, breaks>>
    /\ UNCHANGED <<libVars, ioVars>>

\* detect_structural_breaks(series, window=..., threshold=...)
DetectStructuralBreaks ==
    /\ pc = "input"
    /\ series' \in SeriesInputs
    /\ window' \in Windows
    /\ threshold' \in Thresholds
    /\ breaks' = detect_structural_breaks(series', window', threshold')
    /\ pc' = "breaks"
    /\ UNCHANGED <<df, base_year, value_col, adjusted_df, shares_df, deflator_df, pipeVars>>
    /\ UNCHANGED growth_df
    /\ UNCHANGED <<start_year, end_year, top_n, shifts>>
    /\ UNCHANGED <<lookback_years, growth_threshold, min_final_share, emerging>>
    /\ UNCHANGED <<libVars, ioVars>>

AnNext ==
    \/ CalculateYoyGrowth
    \/ AnalyzeCountryShifts
    \/ IdentifyEmergingPartners
    \/ DetectStructuralBreaks

AnSpec == AnInit /\ [][AnNext]_vars

(***************************************************************************)
(* The classification, parsing and merging functions, called on their own  *)
(***************************************************************************)
FirstPeriodYear == 1985

LastPeriodYear == 2025

\* the years passed to get_historical_period: they span every threshold
PeriodYears == FirstPeriodYear..LastPeriodYear

MaxLabelRows == 2

\* a label with a blank on either side
Padded(label) == <<" ">> \o label \o <<" ">>

ChinaLower == <<"c", "h", "i", "n", "a">>

\* the labels of the country column: every pattern and every standard name of
\* the table, a lower-case spelling and a name the table does not have, each
\* also with surrounding blanks
NameLabels ==
    LET plain == {COUNTRY_NAME_MAPPINGS[k][1] : k \in 1..Len(COUNTRY_NAME_MAPPINGS)}
                 \cup {COUNTRY_NAME_MAPPINGS[k][2] : k \in 1..Len(COUNTRY_NAME_MAPPINGS)}
                 \cup {ChinaLower, Peru}
    IN  plain \cup {Padded(l) : l \in plain}

\* the datasets passed to standardize_country_names: one row of any label, or
\* up to MaxLabelRows rows of a few
LabelDatasets ==
    LET few == {China, ChinaLower, Padded(Upper(China)), Peru, Padded(Peru)}
    IN  {<<[country |-> l]>> : l \in NameLabels}
        \cup {[i \in 1..Len(ls) |-> [country |-> ls[i]]] : ls \in SeqsUpTo(few, MaxLabelRows)}

MaxHhiCountries == 8

MaxHhiValue == 5

\* the sequences of n values from 0..maxv that never increase
RECURSIVE NonIncreasing(_, _)
NonIncreasing(n, maxv) ==
    IF n = 0 THEN {<<>>}
    ELSE UNION {{<<v>> \o t : t \in NonIncreasing(n - 1, v)} : v \in 0..maxv}

\* the datasets passed to calculate_hhi: the imports of one year from
\* MaxHhiCountries countries, largest first, some of them possibly zero
HhiDatasets ==
    {[i \in 1..Len(vs) |-> [country |-> <<"C", CHOOSE d \in DOMAIN DigitValue : DigitValue[d] = i>>,
                            year |-> PipelineBaseYear, trade_type |-> "import",
                            value |-> Int2F(vs[i])]] :
        vs \in NonIncreasing(MaxHhiCountries, MaxHhiValue)}

LibInit ==
    /\ pc = "call"
    /\ df = <<>>
    /\ base_year = PipelineBaseYear
    /\ value_col = "value"
    /\ adjusted_df = <<>>
    /\ shares_df = <<>>
    /\ deflator_df = <<>>
    /\ monthly_df = <<>>
    /\ annual_df = <<>>
    /\ historical_df = <<>>
    /\ merged_df = <<>>
    /\ processed_df = <<>>
    /\ hhi_df = <<>>
    /\ annualized_df = <<>>
    /\ growth_df = <<>>
    /\ start_year = 0
    /\ end_year = 0
    /\ top_n = DefaultTopN
    /\ shifts = NoShifts
    /\ lookback_years = DefaultLookbackYears
    /\ growth_threshold = Int2F(DefaultGrowthThreshold)
    /\ min_final_share = Int2F(DefaultMinFinalShare)
    /\ emerging = <<>>
    /\ series = <<>>
    /\ window = DefaultWindow
    /\ threshold = Int2F(DefaultThreshold)
    /\ breaks = <<>>
    /\ lib_merged = <<>>
    /\ merge_arg = <<>>
    /\ agg_df = <<>>
    /\ output_files = {}
    /\ hhi_result = <<>>
    /\ long_df = <<>>
    /\ wide_df = [columns |-> <<>>, rows |-> <<>>]
    /\ restandardized = <<>>
    /\ standardized = <<>>
    /\ error = <<>>
    /\ files = {}
    /\ period = ""
    /\ period_year = 0

\* get_historical_period(year)
GetHistoricalPeriod ==
    /\ pc = "call"
    /\ period_year' \in PeriodYears
    /\ period' = get_historical_period(period_year')
    /\ pc' = "period"
    /\ UNCHANGED <<deflator_df, pipeVars, fnVars, anVars, ioVars>>
    /\ UNCHANGED <<nameVars, parseVars, hhi_result, aggVars>>

\* standardize_country_names(df)
StandardizeCountryNames ==
    /\ pc = "call"
    /\ df' \in LabelDatasets
    /\ standardized' = standardize_country_names(df')
    /\ pc' = "standardized"
    /\ UNCHANGED <<base_year, value_col, adjusted_df, shares_df>>
    /\ UNCHANGED <<deflator_df, pipeVars, anVars, ioVars>>
    /\ UNCHANGED <<periodVars, restandardized, parseVars, hhi_result, aggVars>>

\* standardize_country_names on its own result
StandardizeAgain ==
    /\ pc = "standardized"
    /\ restandardized' = standardize_country_names(standardized)
    /\ pc' = "restandardized"
    /\ UNCHANGED <<deflator_df, pipeVars, fnVars, anVars, ioVars>>
    /\ UNCHANGED <<periodVars, standardized, parseVars, hhi_result, aggVars>>

\* parse_monthly_wide_format(df, trade_type="import") on a table as read_csv gives it
ParseMonthlyWide ==
    /\ pc = "call"
    /\ wide_df' \in UNION {WideTables(n) : n \in 0..MaxWideRows}
    /\ long_df' = parse_monthly_wide_format(wide_df', "import")
    /\ pc' = "parsed"
    /\ UNCHANGED <<deflator_df, pipeVars, fnVars, anVars, ioVars>>
    /\ UNCHANGED <<periodVars, nameVars, hhi_result, aggVars>>

\* calculate_hhi(df) on one year's imports
CalculateHhiOfYear ==
    /\ pc = "call"
    /\ df' \in HhiDatasets
    /\ hhi_result' = calculate_hhi(df', "value")
    /\ pc' = "hhi"
    /\ UNCHANGED <<base_year, value_col, adjusted_df, shares_df>>
    /\ UNCHANGED <<deflator_df, pipeVars, anVars, ioVars>>
    /\ UNCHANGED <<periodVars, nameVars, parseVars, aggVars>>

\* aggregate_monthly_to_annual(df) on the long records of the parsed table
AggregateMonthly ==
    /\ pc = "parsed"
    /\ agg_df' = aggregate_monthly_to_annual(long_df)
    /\ pc' = "aggregated"
    /\ UNCHANGED <<deflator_df, pipeVars, fnVars, anVars, ioVars>>
    /\ UNCHANGED <<periodVars, nameVars, parseVars, hhi_result, merge_arg, lib_merged>>

\* merge_data(historical_df, monthly_annual_df) with the aggregates as they are,
\* or with trade_type added as aggregate_to_annual does; the caller keeps its
\* frame in agg_df, merge_arg is that frame as it was passed
MergeAggregates ==
    /\ pc = "aggregated"
    /\ agg_df # <<>>
    /\ \E historical \in HistTables, monthly_annual_df \in {agg_df, aggregate_to_annual(long_df)} :
          /\ merge_arg' = monthly_annual_df
          /\ lib_merged' = merge_data(historical, monthly_annual_df)
          /\ agg_df' = monthly_annual_df_after_merge(monthly_annual_df)
    /\ pc' = "merged"
    /\ UNCHANGED <<deflator_df, pipeVars, fnVars, anVars, ioVars>>
    /\ UNCHANGED <<periodVars, nameVars, parseVars, hhi_result>>

LibNext ==
    \/ GetHistoricalPeriod
    \/ StandardizeCountryNames
    \/ StandardizeAgain
    \/ ParseMonthlyWide
    \/ CalculateHhiOfYear
    \/ AggregateMonthly
    \/ MergeAggregates

LibSpec == LibInit /\ [][LibNext]_vars
(***************************************************************************)
(* Properties                                                              *)
(***************************************************************************)
\* equality of two floats: NaN equals nothing
FEq(x, y) == ~IsNaN(x) /\ ~IsNaN(y) /\ x = y

\* the mathematical sum of a column: a NaN entry makes it NaN
RECURSIVE PlainSum(_)
PlainSum(s) == IF s = <<>> THEN <<0, 1>> ELSE FAdd(Head(s), PlainSum(Tail(s)))

\* the rows of d in the (year, trade_type) partition of row r
PartitionOf(d, r) == SelectSeq(d, LAMBDA q : q.year = r.year /\ q.trade_type = r.trade_type)

\* row r has the share the partition's own rows give it, and the partition's shares sum to 100
ShareIsExact(d, r) ==
    LET part  == PartitionOf(d, r)
        total == PlainSum(Column(part, value_col))
    IN  /\ FEq(r.share_pct, FDiv(FMul(Int2F(100), r[value_col]), total))
        /\ FEq(PlainSum(Column(part, "share_pct")), Int2F(100))

\* the partition of r has only finite values and a total that is not zero
PartitionDefined(d, r) ==
    LET vals == Column(PartitionOf(d, r), value_col)
    IN  /\ \A k \in 1..Len(vals) : IsFinite(vals[k])
        /\ PlainSum(vals) # <<0, 1>>

\* C1 as stated: after calculate_country_shares, in every (year, trade_type)
\* partition each row's share_pct is 100 * value / (the partition's total) and
\* the partition's share_pct values sum to 100.
C1_SharesSumTo100 ==
    pc = "shares" => \A i \in 1..Len(shares_df) : ShareIsExact(shares_df, shares_df[i])

\* C1 as amended: the same, for every partition whose values are all finite and
\* whose total is not zero.
C1_SharesSumTo100WhereDefined ==
    pc = "shares" =>
        \A i \in 1..Len(shares_df) :
            PartitionDefined(shares_df, shares_df[i]) => ShareIsExact(shares_df, shares_df[i])

\* C1's case: a partition of two rows with unequal non-zero values, in a year that
\* also has rows of the other trade type
C1_Witness ==
    /\ pc = "shares"
    /\ \E i, j, k \in 1..Len(shares_df) :
          /\ i # j
          /\ shares_df[i].year = shares_df[j].year
          /\ shares_df[i].trade_type = shares_df[j].trade_type
          /\ PartitionDefined(shares_df, shares_df[i])
          /\ FLt(<<0, 1>>, shares_df[i][value_col])
          /\ FLt(shares_df[i][value_col], shares_df[j][value_col])
          /\ shares_df[k].year = shares_df[i].year
          /\ shares_df[k].trade_type # shares_df[i].trade_type
          /\ FLt(<<0, 1>>, shares_df[k][value_col])

\* the deflator the table gives base_year is finite and not zero
BaseYearDeflated ==
    LET hit == DeflatorMap(deflator_df, base_year)
    IN  hit # <<>> /\ IsFinite(hit[1]) /\ hit[1] # <<0, 1>>

\* C10 as stated: for every row whose year is base_year, value_real equals the
\* nominal value, whatever the deflator table.
C10_BaseYearValueUnchanged ==
    \A i \in 1..Len(adjusted_df) :
        adjusted_df[i].year = base_year => FEq(adjusted_df[i].value_real, adjusted_df[i].value)

\* C10 as amended: that holds when the table has a finite, non-zero deflator for
\* base_year; when it has none or a zero one, value_real of those rows is NaN.
C10_BaseYearValueUnchangedIfDeflated ==
    \A i \in 1..Len(adjusted_df) :
        adjusted_df[i].year = base_year =>
            IF BaseYearDeflated
            THEN FEq(adjusted_df[i].value_real, adjusted_df[i].value)
            ELSE IsNaN(adjusted_df[i].value_real)

\* C10's case: a base-year row with a positive value, deflated by a table whose
\* base-year deflator is not the default 100
C10_Witness ==
    /\ pc = "adjusted"
    /\ BaseYearDeflated
    /\ DeflatorMap(deflator_df, base_year) # <<Int2F(DefaultBaseDeflator)>>
    /\ \E i \in 1..Len(adjusted_df) :
          /\ adjusted_df[i].year = base_year
          /\ FLt(<<0, 1>>, adjusted_df[i].value)
          /\ adjusted_df[i].value_real = adjusted_df[i].value

\* merge_data has returned
Merged == pc \in {"merged", "processed", "analysed"}

\* the number of rows of merged_df that come from the historical table: merge_data
\* concatenates the historical rows it keeps and then the monthly-derived rows
HistPart == Len(merged_df) - Len(annual_df)

MinMonthlyYear == MinOf({annual_df[i].year : i \in 1..Len(annual_df)})

\* merged row m is historical row h
SameRecord(m, h) ==
    /\ m.country = h.country
    /\ m.year = h.year
    /\ m.value = h.value
    /\ m.trade_type = h.trade_type

\* historical row h is among the historical rows of merged_df
KeptInMerge(h) == \E i \in 1..HistPart : SameRecord(merged_df[i], h)

\* C2: in the dataset merge_data returns, no row of a year >= the first monthly
\* year comes from the historical table and no row of an earlier year from the
\* monthly-derived table; no year has rows of both sources.
C2_YearsNeverBlended ==
    Merged =>
        /\ HistPart \in 0..Len(historical_df)
        /\ \A i \in 1..Len(merged_df) :
              IF i <= HistPart
              THEN /\ merged_df[i].year < MinMonthlyYear
                   /\ \E j \in 1..Len(historical_df) : SameRecord(merged_df[i], historical_df[j])
              ELSE /\ merged_df[i].year >= MinMonthlyYear
                   /\ merged_df[i] = SelectCommon(annual_df)[i - HistPart]
        /\ \A i \in 1..HistPart : \A k \in (HistPart + 1)..Len(merged_df) :
              merged_df[i].year # merged_df[k].year

\* C2's case: a historical import row of a monthly year was left out, another
\* historical row was kept
C2_Witness ==
    /\ Merged
    /\ HistPart >= 1
    /\ \E j \in 1..Len(historical_df) :
          /\ historical_df[j].year >= MinMonthlyYear
          /\ historical_df[j].trade_type = "import"

\* C3 as stated: every historical row of a year <= historical_cutoff is kept in
\* the merged dataset, whatever its trade type.
C3_HistoricalRowsKept ==
    Merged =>
        \A j \in 1..Len(historical_df) :
            historical_df[j].year <= MinMonthlyYear - 1 => KeptInMerge(historical_df[j])

\* C3 as amended: every historical import row of a year <= historical_cutoff is
\* kept; the historical rows of any other trade type are left out.
C3_HistoricalImportRowsKept ==
    Merged =>
        \A j \in 1..Len(historical_df) :
            historical_df[j].year <= MinMonthlyYear - 1 =>
                (KeptInMerge(historical_df[j]) <=> historical_df[j].trade_type = "import")

\* C3's case: the historical table has an import row and an export row up to the cutoff
C3_Witness ==
    /\ Merged
    /\ \E j, k \in 1..Len(historical_df) :
          /\ historical_df[j].year <= MinMonthlyYear - 1
          /\ historical_df[j].trade_type = "import"
          /\ KeptInMerge(historical_df[j])
          /\ historical_df[k].year <= MinMonthlyYear - 1
          /\ historical_df[k].trade_type = "export"

\* C4: the pipeline's output has at most one row per (canonical country, year,
\* trade_type).  Rows of one raw label and year are summed by the aggregation and
\* the historical table has one row per key, so no input row is a repeat.
C4_OneRowPerCountryYearType ==
    pc \in {"processed", "analysed"} =>
        \A i, j \in 1..Len(processed_df) :
            i # j => <<processed_df[i].country, processed_df[i].year, processed_df[i].trade_type>>
                     # <<processed_df[j].country, processed_df[j].year, processed_df[j].trade_type>>

\* the monthly records of the (country, year) of aggregate a
RecordsOf(a) == SelectSeq(monthly_df, LAMBDA r : r.country = a.country /\ r.year = a.year)

MonthsOf(a) == {RecordsOf(a)[k].month : k \in 1..Len(RecordsOf(a))}

C6_MonthCountIsDistinctMonths ==
    \A i \in 1..Len(annual_df) :
        /\ annual_df[i].month_count = Cardinality(MonthsOf(annual_df[i]))
        /\ annual_df[i].month_count \in 1..12
        /\ Cardinality(MonthsOf(annual_df[i])) = 7 =>
              annual_df[i].month_count = 7 /\ annual_df[i].is_ytd

\* C7: last_month of every aggregate is the largest month index of its group
\* and lies in 1..12, whatever numeric-named columns the table has.
C7_LastMonthWithinYear ==
    \A i \in 1..Len(annual_df) :
        /\ annual_df[i].last_month = MaxOf(MonthsOf(annual_df[i]))
        /\ annual_df[i].last_month \in 1..12

\* C8: the value of an aggregate is the plain sum of its months' values, in USD,
\* never scaled by 12 / month_count, and stays so through the merge and
\* process_data; no dataset of the pipeline has a value_annualized column;
\* annualize_ytd_value, called explicitly, adds that column and changes no other.
C8_ValueIsPlainSum ==
    /\ \A i \in 1..Len(annual_df) :
          /\ annual_df[i].value
                = FMul(PlainSum(Column(RecordsOf(annual_df[i]), "value")), Int2F(BillionsToUSD))
          /\ "value_annualized" \notin DOMAIN annual_df[i]
    /\ \A i \in 1..Len(merged_df) :
          /\ "value_annualized" \notin DOMAIN merged_df[i]
          /\ i > HistPart => merged_df[i].value = annual_df[i - HistPart].value
    /\ \A i \in 1..Len(processed_df) :
          /\ "value_annualized" \notin DOMAIN processed_df[i]
          /\ \E k \in 1..Len(merged_df) :
                /\ processed_df[i].country = map_country(merged_df[k].country)
                /\ processed_df[i].year = merged_df[k].year
                /\ processed_df[i].month_count = merged_df[k].month_count
                /\ processed_df[i].value = merged_df[k].value
    /\ pc = "annualized" =>
          /\ Len(annualized_df) = Len(annual_df)
          /\ \A i \in 1..Len(annual_df) :
                /\ \A c \in DOMAIN annual_df[i] : annualized_df[i][c] = annual_df[i][c]
                /\ annualized_df[i].value_annualized
                      = FDiv(FMul(annual_df[i].value, Int2F(12)), Int2F(annual_df[i].month_count))

\* C8's case: a year-to-date aggregate of seven months went through the
\* aggregation and an explicit annualization
C8_Witness ==
    /\ pc = "annualized"
    /\ \E i \in 1..Len(annual_df) :
          /\ annual_df[i].is_ytd
          /\ annual_df[i].month_count = 7
          /\ annual_df[i].value = Int2F(7)
          /\ annualized_df[i].value = Int2F(7)
          /\ annualized_df[i].value_annualized = Int2F(12)

\* the rows of the output in the group of HHI record h
HHIGroup(h) == SelectSeq(processed_df, LAMBDA r : r.year = h.year /\ r.trade_type = h.trade_type)

\* the countries that hold all of a group's (non-zero) total value
FullHolders(g) ==
    LET total == PlainSum(Column(g, "value"))
    IN  {c \in {g[i].country : i \in 1..Len(g)} :
            /\ total # <<0, 1>>
            /\ PlainSum(Column(SelectSeq(g, LAMBDA r : r.country = c), "value")) = total}

HHIWithinBounds(h) ==
    /\ ~FLt(h.hhi, <<0, 1>>)
    /\ ~FGt(h.hhi, Int2F(10000))
    /\ IsFinite(h.hhi)
    /\ h.hhi = Int2F(10000) <=> Cardinality(FullHolders(HHIGroup(h))) = 1

\* C9: every HHI is in 0..10000, and is 10000 exactly when one country of the
\* group holds all of the group's total value.
C9_HHIBounds == pc = "analysed" => \A k \in 1..Len(hhi_df) : HHIWithinBounds(hhi_df[k])

\* the same for the groups in which every country has one row, as the output
\* contract (one row per country, year and trade type) promises
HHIBoundsOnDistinctCountries ==
    pc = "analysed" =>
        \A k \in 1..Len(hhi_df) :
            (\A i, j \in 1..Len(HHIGroup(hhi_df[k])) :
                i # j => HHIGroup(hhi_df[k])[i].country # HHIGroup(hhi_df[k])[j].country)
            => HHIWithinBounds(hhi_df[k])

\* the years the deflator table has a row for
DeflatorYears == {deflator_df[k].year : k \in 1..Len(deflator_df)}

\* row i of the result is row i of the input with the one column value_real added
SameRowsAsInput ==
    /\ Len(adjusted_df) = Len(df)
    /\ \A i \in 1..Len(df) :
          /\ DOMAIN adjusted_df[i] = DOMAIN df[i] \cup {"value_real"}
          /\ \A c \in DOMAIN df[i] : adjusted_df[i][c] = df[i][c]

\* C11: adjust_for_inflation returns the rows of its input, none dropped; a row
\* whose year the deflator table lacks has value_real = NaN, and a row whose year
\* the table has gets value * deflator[base_year] / deflator[year], where
\* deflator[base_year] is the table's entry, or 100 when the table has none.
C11_MissingDeflatorYieldsNaN ==
    pc = "adjusted" =>
        /\ SameRowsAsInput
        /\ \A i \in 1..Len(adjusted_df) :
              IF adjusted_df[i].year \notin DeflatorYears
              THEN IsNaN(adjusted_df[i].value_real)
              ELSE adjusted_df[i].value_real =
                       FDiv(FMul(adjusted_df[i].value, BaseDeflator(deflator_df, base_year)),
                            DeflatorMap(deflator_df, adjusted_df[i].year)[1])

\* C11's case: a table that lacks the year of one row of positive value and has
\* the year of another, whose real value differs from its nominal one
C11_Witness ==
    /\ pc = "adjusted"
    /\ \E i, j \in 1..Len(adjusted_df) :
          /\ adjusted_df[i].year \notin DeflatorYears
          /\ FLt(<<0, 1>>, adjusted_df[i].value)
          /\ IsNaN(adjusted_df[i].value_real)
          /\ adjusted_df[j].year \in DeflatorYears
          /\ IsFinite(adjusted_df[j].value_real)
          /\ adjusted_df[j].value_real # adjusted_df[j].value

\* the rows of the input that belong to the series of r
SeriesOf(r) == SelectSeq(df, LAMBDA q : q.country = r.country /\ q.trade_type = r.trade_type)

\* the values the series of r has for calendar year y
ValuesInYear(r, y) == {SeriesOf(r)[k].value : k \in {k \in 1..Len(SeriesOf(r)) : SeriesOf(r)[k].year = y}}

\* C12: every row of year Y has yoy_growth_pct = 100 * (value[Y] - value[Y-1]) /
\* value[Y-1] with value[Y-1] its series' value for calendar year Y-1, and has no
\* yoy_growth_pct (NaN) when its series has no row for that prior year.
C12_GrowthAgainstPriorYear ==
    pc = "growth" =>
        \A i \in 1..Len(growth_df) :
            LET r == growth_df[i]
                prior == ValuesInYear(r, r.year - 1)
            IN  IF prior = {}
                THEN IsNaN(r.yoy_growth_pct)
                ELSE \A p \in prior :
                        r.yoy_growth_pct = FDiv(FMul(Int2F(100), FSub(r.value, p)), p)

\* the value of the latest row of r's series before r's year, which the shift
\* hands to r as its prior value; <<>> when r is the first row of its series
PriorValueUsed(r) ==
    LET earlier == {k \in 1..Len(SeriesOf(r)) : SeriesOf(r)[k].year < r.year}
    IN  IF earlier = {} THEN <<>>
        ELSE <<SeriesOf(r)[CHOOSE k \in earlier :
                               \A j \in earlier : SeriesOf(r)[j].year <= SeriesOf(r)[k].year].value>>

\* C13: calculate_yoy_growth keeps every row, and a row whose prior value is zero
\* has a non-finite yoy_growth_pct (infinite or NaN), never 0 or another number.
C13_ZeroPriorGivesNonFinite ==
    pc = "growth" =>
        /\ Len(growth_df) = Len(df)
        /\ \A i \in 1..Len(df) :
              \E k \in 1..Len(growth_df) :
                  /\ growth_df[k].country = df[i].country
                  /\ growth_df[k].year = df[i].year
                  /\ growth_df[k].trade_type = df[i].trade_type
                  /\ growth_df[k].value = df[i].value
        /\ \A k \in 1..Len(growth_df) :
              PriorValueUsed(growth_df[k]) = <<Int2F(0)>> =>
                  /\ ~IsFinite(growth_df[k].yoy_growth_pct)
                  /\ ~IsFinite(growth_df[k].yoy_growth)

\* C13's case: a rise from zero (infinite growth) and a stay at zero (NaN) in one
\* dataset
C13_Witness ==
    /\ pc = "growth"
    /\ \E i, j \in 1..Len(growth_df) :
          /\ PriorValueUsed(growth_df[i]) = <<Int2F(0)>>
          /\ FLt(<<0, 1>>, growth_df[i].value)
          /\ growth_df[i].yoy_growth_pct = PosInf
          /\ PriorValueUsed(growth_df[j]) = <<Int2F(0)>>
          /\ growth_df[j].value = Int2F(0)
          /\ IsNaN(growth_df[j].yoy_growth_pct)

\* the rows of the input for a year, and the countries that have one
RowsInYear(year) == SelectSeq(df, LAMBDA r : r.year = year)

CountriesIn(year) == {RowsInYear(year)[k].country : k \in 1..Len(RowsInYear(year))}

\* the value a country has in a year, 0 when it has no row there
ValueIn(c, year) ==
    IF c \in CountriesIn(year)
    THEN (CHOOSE r \in {RowsInYear(year)[k] : k \in 1..Len(RowsInYear(year))} : r.country = c).value
    ELSE Int2F(0)

\* 100 * value / (total of that same year), 0 for a country without a row there
ShareIn(c, year) ==
    IF c \in CountriesIn(year)
    THEN FDiv(FMul(Int2F(100), ValueIn(c, year)), PlainSum(Column(RowsInYear(year), "value")))
    ELSE Int2F(0)

\* C14: the comparison has one row for each country present in start_year or
\* end_year and no other; a country without a row in one of the years has value 0
\* and share 0 there; each share is 100 * value / (total of that same year); and
\* share_change = share_end - share_start.
C14_OuterJoinOwnYearShares ==
    pc = "shifts" =>
        LET comparison == shifts.comparison
        IN  /\ {comparison[i].country : i \in 1..Len(comparison)}
                   = CountriesIn(start_year) \cup CountriesIn(end_year)
            /\ \A i, j \in 1..Len(comparison) :
                  comparison[i].country = comparison[j].country => i = j
            /\ \A i \in 1..Len(comparison) :
                  LET r == comparison[i]
                  IN  /\ r.value_start = ValueIn(r.country, start_year)
                      /\ r.value_end = ValueIn(r.country, end_year)
                      /\ r.share_start = ShareIn(r.country, start_year)
                      /\ r.share_end = ShareIn(r.country, end_year)
                      /\ r.share_change = FSub(r.share_end, r.share_start)

\* the same where the total of each compared year is not zero
SharesWhereTotalsNonZero ==
    (/\ pc = "shifts"
     /\ \A y \in {start_year, end_year} :
           CountriesIn(y) # {} => PlainSum(Column(RowsInYear(y), "value")) # Int2F(0))
    => C14_OuterJoinOwnYearShares

\* the ranks in use in a column are the integers from 1 up, none left out
RanksConsecutive(comparison, rank_col) ==
    LET used == {comparison[i][rank_col] : i \in 1..Len(comparison)}
    IN  used = 1..Cardinality(used)

\* countries with equal values have the same rank, a larger value a better one
RanksFollowValues(comparison, value_col_, rank_col) ==
    \A i, j \in 1..Len(comparison) :
        /\ comparison[i][value_col_] = comparison[j][value_col_]
               => comparison[i][rank_col] = comparison[j][rank_col]
        /\ FGt(comparison[i][value_col_], comparison[j][value_col_])
               => comparison[i][rank_col] < comparison[j][rank_col]

\* C15 as stated: each year's rank is a dense ranking on value descending: equal
\* values share a rank and the ranks in use are consecutive integers from 1.
C15_RanksDense ==
    pc = "shifts" =>
        /\ RanksFollowValues(shifts.comparison, "value_start", "rank_start")
        /\ RanksFollowValues(shifts.comparison, "value_end", "rank_end")
        /\ RanksConsecutive(shifts.comparison, "rank_start")
        /\ RanksConsecutive(shifts.comparison, "rank_end")

\* the rank is one more than the number of compared countries of larger value
RanksCountLarger(comparison, value_col_, rank_col) ==
    \A i \in 1..Len(comparison) :
        comparison[i][rank_col] =
            1 + Cardinality({j \in 1..Len(comparison) :
                                FGt(comparison[j][value_col_], comparison[i][value_col_])})

\* C15 as amended: each year's rank is the "min" ranking on value descending:
\* equal values share a rank, a larger value has a better rank, and a country's
\* rank is 1 + the number of compared countries with a larger value, so that a
\* tie of k countries leaves the next k - 1 ranks unused.
C15_RanksMinMethod ==
    pc = "shifts" =>
        /\ RanksFollowValues(shifts.comparison, "value_start", "rank_start")
        /\ RanksFollowValues(shifts.comparison, "value_end", "rank_end")
        /\ RanksCountLarger(shifts.comparison, "value_start", "rank_start")
        /\ RanksCountLarger(shifts.comparison, "value_end", "rank_end")

\* C15's case: two countries tied at rank 1 in the end year and a third at rank 3
C15_Witness ==
    /\ pc = "shifts"
    /\ \E i, j, k \in 1..Len(shifts.comparison) :
          /\ i # j
          /\ shifts.comparison[i].rank_end = 1
          /\ shifts.comparison[j].rank_end = 1
          /\ shifts.comparison[k].rank_end = 3

\* C16: rank_change = rank_start - rank_end for every compared country, in the
\* comparison and in the rankings returned, so that a move to a better rank is
\* positive: from rank 2 to rank 1 it is +1, from rank 1 to rank 3 it is -2.
C16_RankChangeSign ==
    pc = "shifts" =>
        /\ \A i \in 1..Len(shifts.comparison) :
              LET r == shifts.comparison[i]
              IN  /\ r.rank_change = r.rank_start - r.rank_end
                  /\ r.rank_end < r.rank_start => r.rank_change > 0
                  /\ (r.rank_start = 2 /\ r.rank_end = 1) => r.rank_change = 1
                  /\ (r.rank_start = 1 /\ r.rank_end = 3) => r.rank_change = -2
        /\ \A i \in 1..Len(shifts.rankings) :
              /\ shifts.rankings[i].rank_change
                     = shifts.rankings[i].rank_start - shifts.rankings[i].rank_end
              /\ \E k \in 1..Len(shifts.comparison) :
                    /\ shifts.comparison[k].country = shifts.rankings[i].country
                    /\ shifts.comparison[k].rank_start = shifts.rankings[i].rank_start
                    /\ shifts.comparison[k].rank_end = shifts.rankings[i].rank_end

\* C16's case: one country rises from rank 2 to rank 1 while another falls from
\* rank 1 to rank 3, and both are in the rankings returned
C16_Witness ==
    /\ pc = "shifts"
    /\ \E a, b \in 1..Len(shifts.rankings) :
          /\ shifts.rankings[a].rank_start = 2
          /\ shifts.rankings[a].rank_end = 1
          /\ shifts.rankings[a].rank_change = 1
          /\ shifts.rankings[b].rank_start = 1
          /\ shifts.rankings[b].rank_end = 3
          /\ shifts.rankings[b].rank_change = -2

\* C17: gainers are the at most top_n compared countries of largest share_change
\* and losers those of smallest share_change, every gainer has share_change > 0
\* and every loser share_change < 0.
C17_GainersGainedLosersLost ==
    pc = "shifts" =>
        /\ Len(shifts.gainers) <= top_n
        /\ Len(shifts.losers) <= top_n
        /\ \A i \in 1..Len(shifts.gainers) :
              /\ FGt(shifts.gainers[i].share_change, Int2F(0))
              /\ \A k \in 1..Len(shifts.comparison) :
                    FGt(shifts.comparison[k].share_change, shifts.gainers[i].share_change)
                    => \E j \in 1..Len(shifts.gainers) :
                           shifts.gainers[j].country = shifts.comparison[k].country
        /\ \A i \in 1..Len(shifts.losers) :
              /\ FLt(shifts.losers[i].share_change, Int2F(0))
              /\ \A k \in 1..Len(shifts.comparison) :
                    FLt(shifts.comparison[k].share_change, shifts.losers[i].share_change)
                    => \E j \in 1..Len(shifts.losers) :
                           shifts.losers[j].country = shifts.comparison[k].country

\* the ordering half of C17 alone: at most top_n rows each, no compared country
\* left out of the gainers has a larger share_change than a gainer, none left out
\* of the losers a smaller one than a loser
TopNByShareChange ==
    pc = "shifts" =>
        /\ Len(shifts.gainers) = (IF top_n < Len(shifts.comparison) THEN top_n ELSE Len(shifts.comparison))
        /\ Len(shifts.losers) = Len(shifts.gainers)
        /\ \A i \in 1..Len(shifts.gainers) :
              \A k \in 1..Len(shifts.comparison) :
                  FGt(shifts.comparison[k].share_change, shifts.gainers[i].share_change)
                  => \E j \in 1..Len(shifts.gainers) :
                         shifts.gainers[j].country = shifts.comparison[k].country
        /\ \A i \in 1..Len(shifts.losers) :
              \A k \in 1..Len(shifts.comparison) :
                  FLt(shifts.comparison[k].share_change, shifts.losers[i].share_change)
                  => \E j \in 1..Len(shifts.losers) :
                         shifts.losers[j].country = shifts.comparison[k].country

\* the window of identify_emerging_partners on the dataset passed in
FinalYear == MaxOf({df[i].year : i \in 1..Len(df)})

WindowStartYear == FinalYear - lookback_years

\* the countries the call returned
Returned == {emerging[k].country : k \in 1..Len(emerging)}

\* the growth of a country over the window, 100 * (end - start) / start, is
\* defined (it has a row in both years and its start value is not zero) and is
\* at least the threshold
GrowthReaches(c) ==
    /\ c \in CountriesIn(WindowStartYear)
    /\ c \in CountriesIn(FinalYear)
    /\ ValueIn(c, WindowStartYear) # Int2F(0)
    /\ FGe(FDiv(FMul(Int2F(100), FSub(ValueIn(c, FinalYear), ValueIn(c, WindowStartYear))),
                ValueIn(c, WindowStartYear)),
           growth_threshold)

\* the share of a country in the final year's total is at least the minimum
FinalShareReaches(c) ==
    /\ c \in CountriesIn(FinalYear)
    /\ FGe(FDiv(FMul(Int2F(100), ValueIn(c, FinalYear)),
                PlainSum(Column(RowsInYear(FinalYear), "value"))),
           min_final_share)

\* C18: a country is returned by identify_emerging_partners if and only if its
\* growth over the window, 100 * (end - start) / start, is >= growth_threshold
\* and its share of the final year's total is >= min_final_share; the country
\* going from 10 to 30 with a final share of 2.5% and growth_threshold 100 is
\* returned with min_final_share 1 and not with min_final_share 5.
C18_EmergingIffGrowthAndShare ==
    pc = "emerging" =>
        /\ \A i \in 1..Len(df) :
              df[i].country \in Returned
                  <=> (GrowthReaches(df[i].country) /\ FinalShareReaches(df[i].country))
        /\ Returned \subseteq {df[i].country : i \in 1..Len(df)}
        /\ (/\ df = EmergingExample
            /\ lookback_years = DefaultLookbackYears
            /\ growth_threshold = Int2F(100))
           => /\ min_final_share = Int2F(1) => China \in Returned
              /\ min_final_share = Int2F(5) => China \notin Returned

\* C18's case: the example country is returned with min_final_share 1, with a
\* growth of 200% and a final share of 2.5%
C18_Witness ==
    /\ pc = "emerging"
    /\ df = EmergingExample
    /\ lookback_years = DefaultLookbackYears
    /\ growth_threshold = Int2F(100)
    /\ min_final_share = Int2F(1)
    /\ \E k \in 1..Len(emerging) :
          /\ emerging[k].country = China
          /\ emerging[k].growth_pct = Int2F(200)
          /\ emerging[k].end_share = Norm(5, 2)

\* a country of the final year with no row, or a zero value, in the start year
NoStartValue(c) ==
    /\ c \in CountriesIn(FinalYear)
    /\ \/ c \notin CountriesIn(WindowStartYear)
       \/ ValueIn(c, WindowStartYear) = Int2F(0)

\* C19: a country that is present in the final year and has no record, or a
\* value of zero, in the start year of the window is never returned, whatever
\* growth_threshold and min_final_share.
C19_NoStartNeverEmerging ==
    pc = "emerging" =>
        \A i \in 1..Len(df) : NoStartValue(df[i].country) => df[i].country \notin Returned

\* C19's case: a call that returns one country and leaves out another that rose
\* from zero, though it reaches the final share asked for
C19_Witness ==
    /\ pc = "emerging"
    /\ emerging # <<>>
    /\ \E i \in 1..Len(df) :
          /\ df[i].country \in CountriesIn(WindowStartYear)
          /\ ValueIn(df[i].country, WindowStartYear) = Int2F(0)
          /\ FGt(ValueIn(df[i].country, FinalYear), Int2F(0))
          /\ FinalShareReaches(df[i].country)
          /\ df[i].country \notin Returned

\* the same for a country without a row in the start year
NoStartRowLeftOut ==
    /\ pc = "emerging"
    /\ \E i \in 1..Len(df) :
          /\ df[i].country \notin CountriesIn(WindowStartYear)
          /\ FinalShareReaches(df[i].country)
          /\ df[i].country \notin Returned

\* the position of a year in the series
PositionOf(year) == CHOOSE i \in 1..Len(series) : series[i].year = year

\* the centered window of position i lies within the series
WindowComplete(i) ==
    /\ i - (window - 1 - (window - 1) \div 2) >= 1
    /\ i + (window - 1) \div 2 <= Len(series)

\* C20: detect_structural_breaks returns only years of the series whose centered
\* rolling window is complete; with window = 5 the first 2 and the last 2 points
\* of the series are never returned, whatever their values and the threshold.
C20_EdgeYearsNeverBreaks ==
    pc = "breaks" =>
        \A b \in 1..Len(breaks) :
            /\ \E i \in 1..Len(series) : series[i].year = breaks[b]
            /\ WindowComplete(PositionOf(breaks[b]))
            /\ window = 5 =>
                  /\ PositionOf(breaks[b]) > 2
                  /\ PositionOf(breaks[b]) <= Len(series) - 2

\* C20's case: a 6-point series with window 5 whose first point is the largest
\* value and is not returned, while a point with a complete window is
C20_Witness ==
    /\ pc = "breaks"
    /\ Len(series) = 6
    /\ window = 5
    /\ series[1].value = Int2F(MaxSeriesValue)
    /\ \A i \in 2..Len(series) : FLt(series[i].value, series[1].value)
    /\ breaks # <<>>
    /\ \A b \in 1..Len(breaks) : breaks[b] # series[1].year

\* C21: get_historical_period gives every year exactly one of the nine period
\* labels, the one of the thresholds 1989, 1994, 2001, 2008, 2010, 2018, 2020,
\* 2022 (a threshold year belongs to the later period, 2001 to "China WTO
\* Boom"), and a later year never gets an earlier period.
PeriodLabels ==
    <<"Pre-DataWeb", "Pre-NAFTA", "Pre-WTO China", "China WTO Boom", "Financial Crisis",
      "Post-Crisis Growth", "Trade War", "COVID Era", "Post-COVID">>

PeriodThresholds == {1989, 1994, 2001, 2008, 2010, 2018, 2020, 2022}

PeriodIndex(p) == CHOOSE i \in 1..Len(PeriodLabels) : PeriodLabels[i] = p

C21_PeriodByThresholds ==
    pc = "period" =>
        /\ Cardinality({i \in 1..Len(PeriodLabels) : PeriodLabels[i] = period}) = 1
        /\ PeriodIndex(period) = 1 + Cardinality({t \in PeriodThresholds : period_year >= t})
        /\ period_year = 2001 => period = "China WTO Boom"
        /\ \A later \in PeriodYears :
              later >= period_year =>
                  /\ get_historical_period(later) \in {PeriodLabels[i] : i \in 1..Len(PeriodLabels)}
                  /\ PeriodIndex(get_historical_period(later)) >= PeriodIndex(period)

C21_Witness == pc = "period" /\ period_year = 2001 /\ period = "China WTO Boom"

\* the standard names of the entries whose pattern equals the key ignoring case
StandardsOf(key) ==
    {COUNTRY_NAME_MAPPINGS[k][2] :
        k \in {j \in 1..Len(COUNTRY_NAME_MAPPINGS) : Upper(COUNTRY_NAME_MAPPINGS[j][1]) = Upper(key)}}

\* C22: standardize_country_names replaces a label by the standard name of the
\* table entry that equals the label ignoring letter case, and returns a label
\* that equals no entry unchanged except for trimming; no row is rejected.
C22_CaseInsensitiveExactMatch ==
    pc = "standardized" =>
        /\ Len(standardized) = Len(df)
        /\ \A i \in 1..Len(df) :
              IF StandardsOf(df[i].country) # {}
              THEN standardized[i].country \in StandardsOf(df[i].country)
              ELSE standardized[i].country = Strip(df[i].country)

\* C22 as the code has it: the label is compared ignoring letter case and
\* surrounding whitespace.
C22_MatchIgnoringCaseAndBlanks ==
    pc = "standardized" =>
        /\ Len(standardized) = Len(df)
        /\ \A i \in 1..Len(df) :
              IF StandardsOf(Strip(df[i].country)) # {}
              THEN standardized[i].country \in StandardsOf(Strip(df[i].country))
              ELSE standardized[i].country = Strip(df[i].country)

C22_Witness ==
    /\ pc = "standardized"
    /\ \E i, j \in 1..Len(df) :
          /\ df[i].country = Padded(Upper(China))
          /\ standardized[i].country = China
          /\ df[j].country = Padded(Peru)
          /\ standardized[j].country = Peru

\* the historical rows of import years before the first monthly year, in file order
KeptHistoricalRows ==
    SelectSeq(historical_df,
              LAMBDA r : /\ r.trade_type = "import"
                         /\ \A i \in 1..Len(annual_df) : r.year < annual_df[i].year)

\* C23: the historical rows merge_data keeps come out unchanged and carry
\* is_ytd = FALSE, month_count = 12 and last_month = 12, and every row of the
\* merged dataset, historical or monthly, has the same seven columns.
C23_HistoricalRowsBackfilled ==
    pc = "merged" =>
        /\ Len(merged_df) = Len(KeptHistoricalRows) + Len(annual_df)
        /\ \A i \in 1..Len(KeptHistoricalRows) :
              /\ merged_df[i].country = KeptHistoricalRows[i].country
              /\ merged_df[i].year = KeptHistoricalRows[i].year
              /\ merged_df[i].value = KeptHistoricalRows[i].value
              /\ merged_df[i].trade_type = KeptHistoricalRows[i].trade_type
              /\ merged_df[i].is_ytd = FALSE
              /\ merged_df[i].month_count = 12
              /\ merged_df[i].last_month = 12
        /\ \A i \in 1..Len(merged_df) :
              DOMAIN merged_df[i] =
                  {"country", "year", "value", "trade_type", "is_ytd", "month_count", "last_month"}

C23_Witness ==
    /\ pc = "merged"
    /\ Len(KeptHistoricalRows) >= 1
    /\ merged_df[1].month_count = 12
    /\ \E i \in 1..Len(merged_df) : merged_df[i].is_ytd /\ merged_df[i].month_count < 12

\* the (row, column) cells of the month columns of the wide table
MonthCells == {<<i, j>> : i \in 1..Len(wide_df.rows), j \in {MonthCols(wide_df)[k] : k \in 1..Len(MonthCols(wide_df))}}

\* the long record of a cell whose figure is read after removing commas and quotes
RecordOfCell(c) ==
    [country |-> wide_df.rows[c[1]].country, year |-> wide_df.rows[c[1]].year,
     month |-> IntOf(wide_df.columns[c[2]]),
     value |-> ToNumericStripped(wide_df.rows[c[1]].cells[c[2]]), trade_type |-> "import"]

\* the cells with a kept label and a positive figure
RetainedCells ==
    {c \in MonthCells :
        /\ wide_df.rows[c[1]].country \notin exclude_rows
        /\ ~IsNaN(RecordOfCell(c).value)
        /\ FGt(RecordOfCell(c).value, <<0, 1>>)}

\* C24: the long records of parse_monthly_wide_format are exactly the cells
\* whose country label is not in the exclusion set and whose value, after
\* commas and quotes are stripped, is numeric and strictly positive; every
\* other cell is dropped and a retained value is not altered.
C24_LongRecordsAreThePositiveCells ==
    pc = "parsed" =>
        /\ {long_df[i] : i \in 1..Len(long_df)} = {RecordOfCell(c) : c \in RetainedCells}
        /\ Len(long_df) = Cardinality(RetainedCells)

MissingMonthly == {file_2024, file_2025} \ files

MissingRequired == {file_2024, file_2025, historical_file} \ files

\* C26: when a monthly table or the historical file does not exist, the run
\* stops with a file-not-found error that names the missing path, no stage
\* after the failed load runs, and no output file is written.
C26_MissingInputStopsRun ==
    MissingRequired # {} =>
        /\ output_files = {}
        /\ pc \in {"start", "loaded", "aggregated", "annualized", "failed"}
        /\ historical_df = <<>> /\ merged_df = <<>> /\ processed_df = <<>>
        /\ MissingMonthly # {} =>
              pc \in {"start", "failed"} /\ monthly_df = <<>> /\ annual_df = <<>>
        /\ pc = "failed" =>
              /\ error[1] = "FileNotFoundError"
              /\ error[2] \in MissingRequired
              /\ MissingMonthly # {} => error[2] \in MissingMonthly
        /\ pc # "failed" => error = <<>>

C26_Witness ==
    /\ pc = "failed"
    /\ error = <<"FileNotFoundError", historical_file>>
    /\ historical_file \notin files
    /\ annual_df # <<>>
    /\ output_files = {}

\* C27: a pipeline stage leaves the dataset passed to it unchanged; here
\* merge_data and the frame of monthly aggregates its caller passed.
C27_StagesLeaveInputsUnchanged ==
    pc = "merged" /\ merge_arg # <<>> => agg_df = merge_arg

\* with every common column present in the argument, merge_data leaves it as it was
MergeLeavesCompleteArgumentUnchanged ==
    (pc = "merged" /\ merge_arg # <<>>
        /\ \A i \in 1..Len(merge_arg) : common_cols \subseteq DOMAIN merge_arg[i])
    => agg_df = merge_arg

\* C28: with the default window of 5 and the default threshold of 2.0,
\* detect_structural_breaks returns the empty list for every series.
C28_DefaultsFlagNothing ==
    (pc = "breaks" /\ window = DefaultWindow /\ threshold = Int2F(DefaultThreshold))
    => breaks = <<>>

\* a series with a single spike in a full window, and one with a flat window
C28_Witness ==
    /\ pc = "breaks"
    /\ window = DefaultWindow
    /\ threshold = Int2F(DefaultThreshold)
    /\ Len(series) = MaxSeriesLen
    /\ \A i \in 1..Len(series) : series[i].value = IF i = 3 THEN Int2F(MaxSeriesValue) ELSE Int2F(0)
    /\ breaks = <<>>

\* C29: normalization with the default table is idempotent: standardizing an
\* already standardized dataset changes nothing.
C29_StandardizeIdempotent ==
    pc = "restandardized" => restandardized = standardized

C29_Witness ==
    /\ pc = "restandardized"
    /\ \E i \in 1..Len(df) :
          /\ df[i].country = Padded(COUNTRY_NAME_MAPPINGS[23][1])
          /\ standardized[i].country = COUNTRY_NAME_MAPPINGS[23][2]
          /\ standardized[i].country # df[i].country
    /\ restandardized = standardized

\* the rows of the wide table with all twelve month columns, a country label
\* that is kept, and no other row for the same country and year
FullYearRows ==
    {i \in 1..Len(wide_df.rows) :
        /\ wide_df.columns = MonthNames
        /\ Strip(wide_df.rows[i].country) \notin exclude_rows
        /\ \A j \in 1..Len(wide_df.rows) :
              (wide_df.rows[j].country = wide_df.rows[i].country
               /\ wide_df.rows[j].year = wide_df.rows[i].year) => j = i}

\* the months of row i whose value is zero, negative or missing
NonPositiveMonths(i) ==
    {j \in 1..Len(wide_df.columns) :
        ~FGt(ToNumericStripped(wide_df.rows[i].cells[j]), <<0, 1>>)}

\* the aggregate rows of the country and year of row i
AggregatesOfRow(i) ==
    {a \in 1..Len(agg_df) : /\ agg_df[a].country = wide_df.rows[i].country
                            /\ agg_df[a].year = wide_df.rows[i].year}

\* C30: a month whose value is zero, negative or missing does not count
\* toward month_count: a country whose row has all twelve month columns and a
\* non-positive value in k >= 1 of them is aggregated with month_count = 12 - k
\* and is_ytd = TRUE.
C30_NonPositiveMonthsNotCounted ==
    pc = "aggregated" =>
        \A i \in FullYearRows :
            LET k == Cardinality(NonPositiveMonths(i))
            IN  k >= 1 =>
                    /\ Cardinality(AggregatesOfRow(i)) = 1
                    /\ \A a \in AggregatesOfRow(i) :
                          agg_df[a].month_count = 12 - k /\ agg_df[a].is_ytd = TRUE

\* the same for rows none of whose cells is a text with a thousands separator
MonthCountOfRowsWithoutSeparators ==
    pc = "aggregated" =>
        \A i \in FullYearRows :
            LET k == Cardinality(NonPositiveMonths(i))
            IN  (k >= 1 /\ \A j \in 1..Len(wide_df.columns) :
                              ToNumericStripped(wide_df.rows[i].cells[j])
                                  = ToNumeric(wide_df.rows[i].cells[j]))
                => /\ Cardinality(AggregatesOfRow(i)) = 1
                   /\ \A a \in AggregatesOfRow(i) :
                         agg_df[a].month_count = 12 - k /\ agg_df[a].is_ytd = TRUE

\* one year with a year-to-date country and a complete one
MixedYtdYear ==
    /\ pc = "aggregated"
    /\ \E a, b \in 1..Len(agg_df) :
          /\ agg_df[a].year = agg_df[b].year
          /\ agg_df[a].is_ytd /\ agg_df[a].month_count = 7
          /\ ~agg_df[b].is_ytd
    /\ \E i \in FullYearRows : Cardinality(NonPositiveMonths(i)) = 5

====
